---------------------------- MODULE Spec2Model ----------------------------
(***************************************************************************)
(* The OpenAI streaming adapter (OpenAIModelProvider.streamChat): the      *)
(* provider request, the Observable of ModelEvent built over the SDK       *)
(* stream's callbacks, and finalMessage().                                 *)
(*                                                                         *)
(* One streamChat call is modelled.  The SDK stream is the environment: it *)
(* invokes the registered callbacks.  The subscriber follows the RxJS      *)
(* contract: once error() or complete() was called on it, next(), error()  *)
(* and complete() deliver nothing.                                         *)
(*                                                                         *)
(* Specifications: Spec (the life of one call), SpecFair (Spec under the   *)
(* scheduling of the SDK stream and the event loop), SpecStream (the data  *)
(* handlers of a subscribed stream), SpecCalls (the callbacks of two calls *)
(* interleaved), SpecMapper (final completions mapped to final messages),  *)
(* SpecFormat (user messages formatted into the request), SpecRoundTrip    *)
(* (an assistant message formatted, returned by the provider and mapped),  *)
(* SpecImage (image blocks mapped), SpecAssistant (assistant messages      *)
(* formatted), SpecReasoning (the reasoning effort of the request),        *)
(* SpecExtract (extractText of the search example's web tools), SpecChunk  *)
(* (SpecStream with chunks of two fragments that carry ids),               *)
(* SpecConversation (conversations of several messages formatted),         *)
(* SpecCost (calculateCost of the search example's cost module).           *)
(***************************************************************************)
EXTENDS Integers, Sequences, FiniteSets, TLC

VARIABLES
    requests,           \* provider streaming requests issued so far
    phase,              \* the SDK stream: "idle", "streaming", "finalized", "ended"
    failed,             \* the SDK stream emitted "error"
    aborted,            \* the SDK stream emitted "abort" (no listener is registered)
    cancelled,          \* the caller triggered params.signal
    completion,         \* the provider's final completion: <<>> or <<c>>
    subscriptions,      \* number of subscribe() calls on events
    subscribed,         \* the handlers of the first subscription are attached
    emittedToolCalls,   \* Set<string> of tool keys (positions)
    toolCallIds,        \* Map<number, string>
    toolCallIdsByName,  \* Map<string, string>
    nextAutoIndex,      \* let nextAutoIndex
    closed,             \* the subscriber: "open", "error", "complete"
    events,             \* what the subscriber received through next()
    arrivals,           \* history: content and argument deltas the handlers received
    missed,             \* history: provider callbacks that found no handler attached
    nSignals,           \* history: number of data callbacks of the provider
    curCall,            \* history: the provider's current index-less tool call
    finalMessageCalls,  \* the finalMessage() calls: what the subscriber
                        \* was at each call, and the promise's state
    calls,              \* two further streamChat calls on the provider
                        \* object, each subscribed once
    params,             \* the arguments of the streamChat call: <<>> or <<p>>
    body,               \* the body of the provider request: <<>> or <<b>>
    provider,           \* the fields of the provider object: #model and
                        \* #reasoningEffort
    extraction,         \* web_tools.ts: the last extractText call, <<>> or
                        \* <<[response, text]>>
    costing             \* cost.ts: the calculateCost calls made and what
                        \* each returned or threw

vars == <<requests, phase, failed, aborted, cancelled, completion, subscriptions,
          subscribed, emittedToolCalls, toolCallIds, toolCallIdsByName,
          nextAutoIndex, closed, events, arrivals, missed, nSignals, curCall,
          finalMessageCalls, calls, params, body, provider, extraction,
          costing>>

streamVars == <<requests, phase, failed, aborted, cancelled, completion,
                subscriptions, subscribed, emittedToolCalls, toolCallIds,
                toolCallIdsByName, nextAutoIndex, closed, events, arrivals,
                missed, nSignals, curCall, finalMessageCalls>>
auxVars == <<calls, params, body, provider, extraction, costing>>
providerVars == <<phase, failed, aborted, cancelled, completion>>
identityVars == <<emittedToolCalls, toolCallIds, toolCallIdsByName, nextAutoIndex>>
subscriberVars == <<closed, events>>

---------------------------------------------------------------------------
(* Bounds *)

MaxIndex == 1
MaxChunkLen == 2
MaxSignals == 3
MaxLifecycleSignals == 2
MaxSubscribes == 2
MaxFinalMessageCalls == 1
MaxCallSignals == 2
MaxToolCalls == 2
MaxBlocks == 3
MaxImages == 2
MaxContent == 3
MaxMessages == 2
MaxUserBlocks == 2
MaxCostCalls == 1
MaxMTok == 2

---------------------------------------------------------------------------
(* Values *)

None == "none"          \* undefined / null of a string-valued field
Absent == <<>>          \* undefined / null of any other optional value
Some(x) == <<x>>
Get(o) == o[1]

ToolNames == {"f", "g"}
ToolCallIdValues == {"call_a", "call_b"}
ContentDeltas == {"Hi"}
ArgumentDeltas == {"{"}
IndexOpt == {Absent} \cup {Some(i) : i \in 0..MaxIndex}

\* `fallback_${toolIndex}`
FallbackId(toolIndex) == "fallback_" \o ToString(toolIndex)


MapSet(m, k, v) == [x \in DOMAIN m \cup {k} |-> IF x = k THEN v ELSE m[x]]
EmptyMap == [x \in {} |-> None]

\* The identity state the Observable's callback creates for a subscription
NewIdentityState ==
    [emittedToolCalls |-> {}, toolCallIds |-> EmptyMap,
     toolCallIdsByName |-> EmptyMap, nextAutoIndex |-> 0]

\* Two streamChat calls, each subscribed once: per call the identity state
\* of its subscription, the events its subscriber received and (history) the
\* callbacks its stream made; order is the history of whose callback ran.
CallIds == {1, 2}
NewCalls ==
    [of |-> [c \in CallIds |->
                [identity |-> NewIdentityState, events |-> <<>>,
                 signals |-> <<>>]],
     order |-> <<>>]

---------------------------------------------------------------------------
(* Response mapper *)

\* JSON.parse on the argument texts the provider is modelled to send: the
\* parsed object, or Absent where JSON.parse throws a SyntaxError.
JSONParse(text) ==
    CASE text = "{}" -> Some([k \in {} |-> 0])
      [] text = "{\"x\":1}" -> Some([k \in {"x"} |-> 1])
      [] text = "{\"x\":2}" -> Some([k \in {"x"} |-> 2])
      [] text = "{\"o\":{\"x\":1}}" -> Some([k \in {"o"} |-> [j \in {"x"} |-> 1]])
      [] text = "{\"s\":\"a\\\"b\"}" -> Some([k \in {"s"} |-> "a\"b"])
      [] OTHER -> Absent

\* The provider's usage record; the two details records and the counts in
\* them are optional.
OaiUsage(prompt, completionTokens, total, promptDetails, completionDetails) ==
    [prompt_tokens |-> prompt, completion_tokens |-> completionTokens,
     total_tokens |-> total, prompt_tokens_details |-> promptDetails,
     completion_tokens_details |-> completionDetails]

\* Mutant of DetailCount: details?.count || undefined
DetailCountOr(details, count) ==
    IF details = Absent THEN Absent
    ELSE IF count = Some(0) THEN Absent ELSE count

\* details?.count ?? undefined, count being the optional count read from the
\* details record when there is one
DetailCount(details, count) ==
    IF details = Absent THEN Absent ELSE count

\* mapOaiUsage
mapOaiUsage(usage) ==
    [input |->
        [total |-> usage.prompt_tokens,
         cacheRead |->
            DetailCount(usage.prompt_tokens_details,
                IF usage.prompt_tokens_details = Absent THEN Absent
                ELSE Get(usage.prompt_tokens_details).cached_tokens)],
     output |->
        [total |-> usage.completion_tokens,
         thinking |->
            DetailCount(usage.completion_tokens_details,
                IF usage.completion_tokens_details = Absent THEN Absent
                ELSE Get(usage.completion_tokens_details).reasoning_tokens)],
     total |-> usage.total_tokens]

FunctionCalls(message) ==
    IF message.tool_calls = Absent THEN <<>>
    ELSE SelectSeq(Get(message.tool_calls), LAMBDA c : c.type = "function")

\* mapOaiMessageToMessage throws when JSON.parse throws on a function call.
mapOaiMessageThrows(message) ==
    \E i \in DOMAIN FunctionCalls(message) :
        JSONParse(FunctionCalls(message)[i].arguments) = Absent

\* { type: "text", text: message.content ?? "" }
TextBlock(message) ==
    [type |-> "text",
     text |-> IF message.content = None THEN "" ELSE message.content,
     toolUseId |-> None, name |-> None, input |-> Absent]

\* The tool_use block of one tool call
ToolUseBlock(c) ==
    [type |-> "tool_use", text |-> None, toolUseId |-> c.id,
     name |-> c.name, input |-> JSONParse(c.arguments)]

\* Mutant of ToolUseBlocks: tool calls of every kind are mapped.
ToolUseBlocksAllKinds(message) ==
    IF message.tool_calls = Absent THEN <<>>
    ELSE [i \in DOMAIN Get(message.tool_calls) |->
             ToolUseBlock(Get(message.tool_calls)[i])]

\* message.tool_calls?.filter(c => c.type === "function").map(...) ?? []
ToolUseBlocks(message) ==
    [i \in DOMAIN FunctionCalls(message) |->
        ToolUseBlock(FunctionCalls(message)[i])]

\* Mutant of StopReason: only function tool calls count.
StopReasonFunctionOnly(message) ==
    IF Len(FunctionCalls(message)) > 0 THEN "tool_use" ELSE "end_turn"

\* message.tool_calls?.length ? "tool_use" : "end_turn"
StopReason(message) ==
    IF message.tool_calls # Absent /\ Len(Get(message.tool_calls)) > 0
    THEN "tool_use" ELSE "end_turn"

\* mapOaiMessageToMessage (the timestamp, new Date(), is left out).
mapOaiMessageToMessage(message, usage) ==
    [role |-> message.role,
     content |-> <<TextBlock(message)>> \o ToolUseBlocks(message),
     stop_reason |-> StopReason(message),
     usage |-> IF usage = Absent THEN Absent ELSE Some(mapOaiUsage(Get(usage)))]

ToolCall(type, id, name, arguments) ==
    [type |-> type, id |-> id, name |-> name, arguments |-> arguments]

OaiMessage(content, tool_calls) ==
    [role |-> "assistant", content |-> content, tool_calls |-> tool_calls]

\* The final completions the provider is modelled to deliver to a stream:
\* {message: choices[0].message, usage}.
StreamCompletions ==
    { [message |-> OaiMessage("Hi", Absent), usage |-> Absent],
      [message |-> OaiMessage(None,
                     Some(<<ToolCall("function", "call_a", "f", "{\"x\":1}")>>)),
       usage |-> Some(OaiUsage(1, 2, 3, Absent,
                               Some([reasoning_tokens |-> Some(0)])))],
      [message |-> OaiMessage(None,
                     Some(<<ToolCall("function", "call_a", "f", "{\"x\":")>>)),
       usage |-> Absent] }

---------------------------------------------------------------------------
(* Request formatter *)

SUPPORTED_IMAGE_TYPES == {"image/jpeg", "image/png", "image/gif", "image/webp"}

\* Mutant of isSupportedImageType: every media type is taken as supported.
isSupportedImageTypeAny(type) == TRUE

isSupportedImageType(type) == type \in SUPPORTED_IMAGE_TYPES

\* isFileAttachment of message.ts
isFileAttachment(c) == c.type = "file_attachment"

\* Content blocks of Message
Text(text) == [type |-> "text", text |-> text]
Image(sourceType, mediaType, payload) ==
    [type |-> "image",
     source |-> [type |-> sourceType, mediaType |-> mediaType,
                 data |-> IF sourceType = "base64" THEN payload ELSE None,
                 url |-> IF sourceType = "base64" THEN None ELSE payload]]
ToolResult(toolUseId, content) ==
    [type |-> "tool_result", toolUseId |-> toolUseId, content |-> content]
FileAttachment(fileId, mimeType) ==
    [type |-> "file_attachment", fileId |-> fileId, mimeType |-> mimeType]
ToolUse(toolUseId, name, input) ==
    [type |-> "tool_use", toolUseId |-> toolUseId, name |-> name,
     input |-> input]

\* Content parts and messages of the provider request
TextPart(text) == [type |-> "text", text |-> text]
ImageUrlPart(url) ==
    [type |-> "image_url", image_url |-> [url |-> url, detail |-> "high"]]
ToolMessage(content, tool_call_id) ==
    [role |-> "tool", content |-> content, tool_call_id |-> tool_call_id]

\* JSON.stringify on the tool inputs the messages are modelled to hold
JSONStringify(value) ==
    CASE value = [k \in {} |-> 0] -> "{}"
      [] value = [k \in {"x"} |-> 1] -> "{\"x\":1}"
      [] value = [k \in {"x"} |-> 2] -> "{\"x\":2}"
      [] value = [k \in {"o"} |-> [j \in {"x"} |-> 1]] -> "{\"o\":{\"x\":1}}"
      [] value = [k \in {"s"} |-> "a\"b"] -> "{\"s\":\"a\\\"b\"}"

\* mapImageBlockToOpenAI
mapImageBlockToOpenAI(block) ==
    IF isSupportedImageType(block.source.mediaType)
    THEN IF block.source.type = "base64"
         THEN ImageUrlPart("data:" \o block.source.mediaType \o ";base64,"
                           \o block.source.data)
         ELSE ImageUrlPart(block.source.url)
    ELSE TextPart("[Unsupported image type: " \o block.source.mediaType \o "]")

\* parts.join(sep)
RECURSIVE Join(_, _)
Join(parts, sep) ==
    IF parts = <<>> THEN ""
    ELSE IF Len(parts) = 1 THEN parts[1]
    ELSE parts[1] \o sep \o Join(Tail(parts), sep)

\* The placeholder a tool message holds for the image the counter numbers n
ImagePlaceholder(n) == "[See image " \o ToString(n) \o " below]"

\* Mutant of ToolResultMessage: the parts are joined by join()'s default
\* separator.
ToolResultMessageCommas(toolResultParts, toolUseId) ==
    ToolMessage(Join(toolResultParts, ","), toolUseId)

\* The tool message pushed for a tool_result block
ToolResultMessage(toolResultParts, toolUseId) ==
    ToolMessage(Join(toolResultParts, "\n"), toolUseId)

\* The for loop over the sub-blocks of a tool_result block, from block i
RECURSIVE FormatToolResult(_, _, _)
FormatToolResult(blocks, i, st) ==
    IF i > Len(blocks) THEN st
    ELSE LET block == blocks[i]
         IN  IF block.type = "text"
             THEN FormatToolResult(blocks, i + 1,
                    [st EXCEPT !.toolResultParts = Append(@, block.text)])
             ELSE IF block.type = "image"
             THEN LET imageBlock == mapImageBlockToOpenAI(block)
                      n == st.toolResultImageIndex + 1
                  IN  IF imageBlock.type = "image_url"
                      THEN FormatToolResult(blocks, i + 1,
                             [st EXCEPT
                                !.toolResultImageIndex = n,
                                !.toolResultParts =
                                   Append(@, ImagePlaceholder(n)),
                                !.imageParts = Append(@, imageBlock)])
                      ELSE FormatToolResult(blocks, i + 1,
                             [st EXCEPT
                                !.toolResultImageIndex = n,
                                !.toolResultParts = Append(@, imageBlock.text)])
             ELSE FormatToolResult(blocks, i + 1, st)

\* Mutant of AttachmentBlocks: the image follows for every MIME type.
AttachmentBlocksImageAlways(c, cache, textBlock) ==
    <<textBlock, ImageUrlPart(cache.signedUrl)>>

\* What a cached file attachment maps to: the text block, followed by the
\* image of the signed URL when the MIME type is a supported image type
AttachmentBlocks(c, cache, textBlock) ==
    IF isSupportedImageType(c.mimeType)
    THEN <<textBlock, ImageUrlPart(cache.signedUrl)>>
    ELSE <<textBlock>>

\* Mutant of DroppedAttachment: an attachment that is not cached takes a
\* number.
DroppedAttachmentCounted(st) == [st EXCEPT !.attachmentIndex = @ + 1]

\* A file attachment without a cache entry maps to null, which the filter
\* drops: nothing is added and no counter moves.
DroppedAttachment(st) == st

\* message.content.map(...).filter(c => c !== null).flat() of a user
\* message, from block i: the parts of the main message, the tool messages
\* and the two counters
RECURSIVE FormatUserContent(_, _, _, _)
FormatUserContent(content, i, cacheMap, st) ==
    IF i > Len(content) THEN st
    ELSE LET c == content[i]
         IN  IF c.type = "text"
             THEN FormatUserContent(content, i + 1, cacheMap,
                    [st EXCEPT !.content = Append(@, TextPart(c.text))])
             ELSE IF c.type = "tool_result"
             THEN LET r == FormatToolResult(c.content, 1,
                             [toolResultImageIndex |-> st.toolResultImageIndex,
                              toolResultParts |-> <<>>, imageParts |-> <<>>])
                  IN  FormatUserContent(content, i + 1, cacheMap,
                        [st EXCEPT
                           !.toolResultImageIndex = r.toolResultImageIndex,
                           !.toolMessages =
                              Append(@, ToolResultMessage(r.toolResultParts,
                                                          c.toolUseId)),
                           !.content = @ \o r.imageParts])
             ELSE IF c.type = "image"
             THEN FormatUserContent(content, i + 1, cacheMap,
                    [st EXCEPT !.content = Append(@, mapImageBlockToOpenAI(c))])
             ELSE IF isFileAttachment(c)
             THEN IF cacheMap = Absent \/ c.fileId \notin DOMAIN Get(cacheMap)
                  THEN FormatUserContent(content, i + 1, cacheMap,
                                         DroppedAttachment(st))
                  ELSE LET cache == Get(cacheMap)[c.fileId]
                           n == st.attachmentIndex + 1
                           textBlock ==
                              TextPart("Attachment " \o ToString(n)
                                       \o ":\nMIME type: " \o c.mimeType
                                       \o "\nCached at: " \o cache.cachePath)
                       IN  FormatUserContent(content, i + 1, cacheMap,
                             [st EXCEPT
                                !.attachmentIndex = n,
                                !.content =
                                   @ \o AttachmentBlocks(c, cache, textBlock)])
             ELSE FormatUserContent(content, i + 1, cacheMap, st)

\* Mutant of UserMessages: the main message is pushed first.
UserMessagesMainFirst(role, r) ==
    (IF Len(r.content) > 0
     THEN <<[role |-> role, content |-> r.content]>> ELSE <<>>)
    \o r.toolMessages

\* Mutant of UserMessages: the main message is always pushed.
UserMessagesAlways(role, r) ==
    r.toolMessages \o <<[role |-> role, content |-> r.content]>>

\* The messages a user message is formatted to: the tool messages, then the
\* main message when it has content.
UserMessages(role, r) ==
    (IF Len(r.toolMessages) > 0 THEN r.toolMessages ELSE <<>>)
    \o (IF Len(r.content) > 0
        THEN <<[role |-> role, content |-> r.content]>> ELSE <<>>)

\* Mutant of FormatToolCall: the arguments are an empty object.
FormatToolCallEmpty(c) == ToolCall("function", c.toolUseId, c.name, "{}")

\* The provider tool call of a tool_use block
FormatToolCall(c) ==
    ToolCall("function", c.toolUseId, c.name, JSONStringify(c.input))

\* Mutant of ToolCallsField: the field is set also to an empty list.
ToolCallsFieldAlways(toolCalls) ==
    Some([i \in DOMAIN toolCalls |-> FormatToolCall(toolCalls[i])])

\* The tool_calls field spread into the assistant message: absent when the
\* message has no tool_use block
ToolCallsField(toolCalls) ==
    IF Len(toolCalls) > 0
    THEN Some([i \in DOMAIN toolCalls |-> FormatToolCall(toolCalls[i])])
    ELSE Absent

\* The assistant branch of formatInputMessage
AssistantMessage(message) ==
    LET toolCalls == SelectSeq(message.content, LAMBDA c : c.type = "tool_use")
        texts == SelectSeq(message.content, LAMBDA c : c.type = "text")
    IN  [role |-> message.role,
         content |-> [i \in DOMAIN texts |-> TextPart(texts[i].text)],
         tool_calls |-> ToolCallsField(toolCalls)]

\* formatInputMessage, as the list streamChat splices into the request with
\* flat(): the array of a user message, the one message of another role
formatInputMessage(message, fileAttachmentCacheMap) ==
    IF message.role = "user"
    THEN UserMessages(message.role,
            FormatUserContent(message.content, 1, fileAttachmentCacheMap,
                [attachmentIndex |-> 0, toolResultImageIndex |-> 0,
                 toolMessages |-> <<>>, content |-> <<>>]))
    ELSE <<AssistantMessage(message)>>

RECURSIVE Flat(_)
Flat(lists) == IF lists = <<>> THEN <<>> ELSE Head(lists) \o Flat(Tail(lists))

\* model.startsWith(prefix), a model name being the sequence of its
\* characters
startsWith(model, prefix) ==
    /\ Len(prefix) <= Len(model)
    /\ SubSeq(model, 1, Len(prefix)) = prefix

\* Mutant of isReasoningModel: gpt-5-chat is not excluded.
isReasoningModelAnyGpt5(model) ==
    \/ startsWith(model, <<"o", "1">>)
    \/ startsWith(model, <<"o", "3">>)
    \/ startsWith(model, <<"o", "4">>)
    \/ startsWith(model, <<"g", "p", "t", "-", "5">>)

isReasoningModel(model) ==
    \/ startsWith(model, <<"o", "1">>)
    \/ startsWith(model, <<"o", "3">>)
    \/ startsWith(model, <<"o", "4">>)
    \/ /\ startsWith(model, <<"g", "p", "t", "-", "5">>)
       /\ ~startsWith(model, <<"g", "p", "t", "-", "5", "-", "c", "h", "a", "t">>)

\* The fields the constructor sets from its options; configured is a
\* history field, the reasoningEffort option as it was passed.
NewProvider(options) ==
    [model |-> options.model,
     reasoningEffort |-> IF options.reasoningEffort = None
                         THEN "low" ELSE options.reasoningEffort,
     configured |-> options.reasoningEffort]

\* Mutant of RequestMessages: the system message is put last.
RequestMessagesSystemLast(system, formattedMessages) ==
    Flat(formattedMessages) \o <<[role |-> "system", content |-> system]>>

\* messages of the request: the system message, then
\* ...formattedMessages.flat()
RequestMessages(system, formattedMessages) ==
    <<[role |-> "system", content |-> system]>> \o Flat(formattedMessages)

\* The body of the request: the model, the system message followed by the
\* formatted messages, and reasoning_effort (None: the key is not set)
RequestBody(p) ==
    [model |-> provider.model,
     messages |->
        RequestMessages(p.system,
            [i \in DOMAIN p.messages |->
                formatInputMessage(p.messages[i], p.fileAttachmentCacheMap)]),
     reasoning_effort |->
        IF isReasoningModel(provider.model)
        THEN provider.reasoningEffort ELSE None]

StreamChatParams(system, messages, fileAttachmentCacheMap) ==
    [system |-> system, messages |-> messages,
     fileAttachmentCacheMap |-> fileAttachmentCacheMap]

\* The arguments of the streamChat call whose life Spec follows
StreamParams ==
    {StreamChatParams("sys", <<[role |-> "user", content |-> <<Text("Hi")>>]>>,
                      Absent)}

---------------------------------------------------------------------------
(* Events and the subscriber *)

\* ModelEvent.  pos, idx and call are history fields: the resolved position
\* (toolIndex), the index the fragment reported, and the provider's tool
\* call the fragment belongs to.
Event(type, toolUseId, toolName, content) ==
    [type |-> type, toolUseId |-> toolUseId, toolName |-> toolName,
     content |-> content, message |-> Absent,
     pos |-> Absent, idx |-> Absent, call |-> Absent]

ToolEvent(type, toolUseId, toolName, content, pos, idx, call) ==
    [Event(type, toolUseId, toolName, content) EXCEPT
        !.pos = Some(pos), !.idx = idx, !.call = Some(call)]

MessageEvent(message) ==
    [Event("message", None, None, None) EXCEPT !.message = Some(message)]

\* subscriber.next(e1); subscriber.next(e2); ... on a subscriber in state c
SubscriberNext(c, evs, es) == IF c = "open" THEN evs \o es ELSE evs
\* subscriber.error(err)
SubscriberError(c) == IF c = "open" THEN "error" ELSE c
\* subscriber.complete()
SubscriberComplete(c) == IF c = "open" THEN "complete" ELSE c

---------------------------------------------------------------------------
(* Initial state: the provider object is constructed, streamChat not called *)

\* The state after new OpenAIModelProvider(options)
Constructed(options) ==
    /\ requests = 0
    /\ phase = "idle"
    /\ failed = FALSE
    /\ aborted = FALSE
    /\ cancelled = FALSE
    /\ completion = Absent
    /\ subscriptions = 0
    /\ subscribed = FALSE
    /\ emittedToolCalls = {}
    /\ toolCallIds = EmptyMap
    /\ toolCallIdsByName = EmptyMap
    /\ nextAutoIndex = 0
    /\ closed = "open"
    /\ events = <<>>
    /\ arrivals = <<>>
    /\ missed = 0
    /\ nSignals = 0
    /\ curCall = [n |-> 0, name |-> None]
    /\ finalMessageCalls = <<>>
    /\ calls = NewCalls
    /\ params = Absent
    /\ body = Absent
    /\ provider = NewProvider(options)
    /\ extraction = Absent
    /\ costing = <<>>

\* The provider object of the calls: a model that takes no reasoning
\* effort, no effort configured
DefaultOptions == [model |-> <<"g", "p", "t", "-", "4", "o">>,
                   reasoningEffort |-> None]

Init == Constructed(DefaultOptions)

---------------------------------------------------------------------------
(* streamChat, subscribe and finalMessage *)

\* streamChat(params): the request is issued by client.chat.completions
\* .stream(...) when streamChat is called; the Observable is only created.
StreamChat(p) ==
    /\ phase = "idle"
    /\ phase' = "streaming"
    /\ requests' = requests + 1
    /\ params' = Some(p)
    /\ body' = Some(RequestBody(p))
    /\ UNCHANGED <<calls, provider, extraction, costing, failed, aborted, cancelled, completion, subscriptions,
                   subscribed, identityVars, subscriberVars, arrivals, missed,
                   nSignals, curCall, finalMessageCalls>>

\* The SDK stream emits "finalChatCompletion" and "end", "error" and "end",
\* "abort" and "end" within one turn: no code of the caller runs in between.
InFinalTurn == phase = "finalized" \/ (phase = "streaming" /\ (failed \/ aborted))

\* Mutant of Subscribe: the request is issued by the Observable's callback,
\* once per subscription.
SubscribeRequests ==
    /\ phase # "idle" /\ ~InFinalTurn
    /\ subscriptions < MaxSubscribes
    /\ subscriptions' = subscriptions + 1
    /\ requests' = requests + 1
    /\ IF subscribed
       THEN UNCHANGED <<subscribed, identityVars>>
       ELSE /\ subscribed' = TRUE
            /\ emittedToolCalls' = {}
            /\ toolCallIds' = EmptyMap
            /\ toolCallIdsByName' = EmptyMap
            /\ nextAutoIndex' = 0
    /\ UNCHANGED <<auxVars, providerVars, subscriberVars, arrivals, missed, nSignals,
                   curCall, finalMessageCalls>>

\* events.subscribe(...): runs the Observable's callback, which creates the
\* identity state and registers the handlers on the one SDK stream.  The
\* model follows the subscriber of the first subscription; a later
\* subscription runs the same callback over a closure state of its own.
Subscribe ==
    /\ phase # "idle" /\ ~InFinalTurn
    /\ subscriptions < MaxSubscribes
    /\ subscriptions' = subscriptions + 1
    /\ IF subscribed
       THEN UNCHANGED <<subscribed, identityVars>>
       ELSE /\ subscribed' = TRUE
            /\ emittedToolCalls' = {}
            /\ toolCallIds' = EmptyMap
            /\ toolCallIdsByName' = EmptyMap
            /\ nextAutoIndex' = 0
    /\ UNCHANGED <<auxVars, requests, providerVars, subscriberVars, arrivals, missed,
                   nSignals, curCall, finalMessageCalls>>

\* finalMessage(): awaits stream.finalChatCompletion() of the same stream.
\* The returned promise is pending until SettleFinalMessage.
FinalMessage ==
    /\ phase # "idle" /\ ~InFinalTurn
    /\ Len(finalMessageCalls) < MaxFinalMessageCalls
    /\ finalMessageCalls' = Append(finalMessageCalls,
                                   [closed |-> closed, state |-> "pending",
                                    value |-> Absent])
    /\ UNCHANGED <<auxVars, requests, providerVars, subscriptions, subscribed,
                   identityVars, subscriberVars, arrivals, missed, nSignals,
                   curCall>>

\* What the promise of finalMessage() settles to once the SDK stream ended:
\* stream.finalChatCompletion() rejects after an error or an abort; after a
\* completion, mapOaiMessageToMessage returns the message or throws.
FinalMessageOutcome(call) ==
    IF failed \/ aborted \/ completion = Absent
    THEN [call EXCEPT !.state = "rejected"]
    ELSE IF mapOaiMessageThrows(Get(completion).message)
    THEN [call EXCEPT !.state = "rejected"]
    ELSE [call EXCEPT !.state = "resolved",
                      !.value = Some(mapOaiMessageToMessage(
                                        Get(completion).message,
                                        Get(completion).usage))]

\* The continuation of `await stream.finalChatCompletion()` in the i-th
\* finalMessage() call: it runs once the SDK stream has emitted "end".
SettleFinalMessage(i) ==
    /\ phase = "ended"
    /\ i \in DOMAIN finalMessageCalls
    /\ finalMessageCalls[i].state = "pending"
    /\ finalMessageCalls' =
          [finalMessageCalls EXCEPT ![i] = FinalMessageOutcome(@)]
    /\ UNCHANGED <<auxVars, requests, providerVars, subscriptions, subscribed,
                   identityVars, subscriberVars, arrivals, missed, nSignals,
                   curCall>>

\* The caller aborts params.signal while the request is in flight.
Cancel ==
    /\ phase = "streaming"
    /\ ~cancelled /\ ~failed /\ ~aborted
    /\ cancelled' = TRUE
    /\ UNCHANGED <<auxVars, requests, phase, failed, aborted, completion, subscriptions,
                   subscribed, identityVars, subscriberVars, arrivals, missed,
                   nSignals, curCall, finalMessageCalls>>

---------------------------------------------------------------------------
(* The handlers *)

\* A data callback of the SDK stream can arrive
DataSignal == phase = "streaming" /\ nSignals < MaxSignals

\* A callback that finds no handler registered (nobody subscribed yet)
Unhandled ==
    /\ missed' = missed + 1
    /\ UNCHANGED <<identityVars, subscriberVars, arrivals>>

\* stream.on("content.delta", ...)
OnContentDelta(delta) ==
    /\ DataSignal
    /\ nSignals' = nSignals + 1
    /\ IF subscribed
       THEN /\ events' = SubscriberNext(closed, events,
                            <<Event("text", None, None, delta)>>)
            /\ arrivals' = Append(arrivals,
                            [type |-> "text", name |-> None, content |-> delta,
                             idx |-> Absent])
            /\ UNCHANGED <<identityVars, closed, missed>>
       ELSE Unhandled
    /\ UNCHANGED <<auxVars, requests, providerVars, subscriptions, subscribed, curCall,
                   finalMessageCalls>>

\* Mutant of FragmentIndex: the array position, whatever the fragment
\* reports.
FragmentIndexArrayOnly(tc, i) == i - 1

\* tc.index ?? i, i being the 1-based place of the fragment in the array
FragmentIndex(tc, i) == IF tc.index # Absent THEN Get(tc.index) ELSE i - 1

\* The for loop of the chunk handler over toolCalls, from array position i
\* (1-based here, tc.index ?? i counts from 0).
RECURSIVE ChunkToolCalls(_, _, _, _)
ChunkToolCalls(toolCalls, i, ids, byName) ==
    IF i > Len(toolCalls) THEN [ids |-> ids, byName |-> byName]
    ELSE LET tc == toolCalls[i]
             index == FragmentIndex(tc, i)
         IN  IF tc.id # None
             THEN ChunkToolCalls(toolCalls, i + 1, MapSet(ids, index, tc.id),
                                 IF tc.name # None
                                 THEN MapSet(byName, tc.name, tc.id)
                                 ELSE byName)
             ELSE ChunkToolCalls(toolCalls, i + 1, ids, byName)

\* chunk.choices[0]?.delta?.tool_calls of the chunks the provider is modelled
\* to send: none, or k fragments without id, index and name followed by one
\* fragment of any shape.
Fragments ==
    [index : IndexOpt, id : {None} \cup ToolCallIdValues,
     name : {None} \cup ToolNames]
Padding(k) == [j \in 1..k |-> [index |-> Absent, id |-> None, name |-> None]]
ChunkToolCallLists ==
    {Absent} \cup
    {Some(Padding(k) \o <<tc>>) : k \in 0..(MaxChunkLen - 1), tc \in Fragments}

\* stream.on("chunk", ...)
OnChunk(toolCalls) ==
    /\ DataSignal
    /\ nSignals' = nSignals + 1
    /\ IF subscribed
       THEN /\ IF toolCalls # Absent
               THEN LET r == ChunkToolCalls(Get(toolCalls), 1, toolCallIds,
                                            toolCallIdsByName)
                    IN  /\ toolCallIds' = r.ids
                        /\ toolCallIdsByName' = r.byName
               ELSE UNCHANGED <<toolCallIds, toolCallIdsByName>>
            /\ UNCHANGED <<emittedToolCalls, nextAutoIndex, subscriberVars,
                           arrivals, missed>>
       ELSE Unhandled
    /\ UNCHANGED <<auxVars, requests, providerVars, subscriptions, subscribed, curCall,
                   finalMessageCalls>>

\* The provider's tool call a fragment belongs to: the reported index, or for
\* a fragment without index the current call or the next one (newCall).
FragmentCall(index, newCall) ==
    IF index # Absent THEN Get(index)
    ELSE IF newCall THEN curCall.n + 1 ELSE curCall.n

\* The SDK names a fragment after the tool call it accumulates it into: the
\* fragments of one call carry one name.
NameOfCall(name, index, newCall) ==
    /\ index # Absent =>
          /\ ~newCall
          /\ \A k \in DOMAIN arrivals :
                arrivals[k].idx = index => arrivals[k].name = name
    /\ index = Absent /\ ~newCall => curCall.n > 0 /\ name = curCall.name

\* const toolIndex = event.index ?? nextAutoIndex
ResolveToolIndex(index, autoIndex) ==
    IF index # Absent THEN Get(index) ELSE autoIndex

\* Mutant of ResolveToolUseId: the id recorded for the name is tried first.
ResolveToolUseIdNameFirst(ids, byName, toolIndex, toolName) ==
    IF toolName \in DOMAIN byName THEN byName[toolName]
    ELSE IF toolIndex \in DOMAIN ids THEN ids[toolIndex]
    ELSE FallbackId(toolIndex)

\* toolCallIds.get(toolIndex) ?? toolCallIdsByName.get(toolName) ??
\* `fallback_${toolIndex}`
ResolveToolUseId(ids, byName, toolIndex, toolName) ==
    IF toolIndex \in DOMAIN ids THEN ids[toolIndex]
    ELSE IF toolName \in DOMAIN byName THEN byName[toolName]
    ELSE FallbackId(toolIndex)

\* Mutant of MarkEmitted: the tool key is never recorded.
MarkEmittedNever(emitted, toolKey) == emitted

\* emittedToolCalls.add(toolKey)
MarkEmitted(emitted, toolKey) == emitted \cup {toolKey}

\* Mutant of ArgumentsDeltaEvents: the first fragment of a tool call only
\* starts the call, its text is not emitted.
ArgumentsDeltaEventsElse(first, toolUseId, toolName, delta, toolIndex, index, call) ==
    IF first
    THEN <<ToolEvent("tool_use", toolUseId, toolName, None, toolIndex, index,
                     call)>>
    ELSE <<ToolEvent("tool_use_input", toolUseId, toolName, delta,
                     toolIndex, index, call)>>

\* The events of one argument delta: the tool_use event when the tool key is
\* seen first, then the tool_use_input event.
ArgumentsDeltaEvents(first, toolUseId, toolName, delta, toolIndex, index, call) ==
    (IF first
     THEN <<ToolEvent("tool_use", toolUseId, toolName, None, toolIndex, index,
                      call)>>
     ELSE <<>>)
    \o <<ToolEvent("tool_use_input", toolUseId, toolName, delta,
                   toolIndex, index, call)>>

\* stream.on("tool_calls.function.arguments.delta", ...)
OnArgumentsDelta(name, index, arguments_delta, newCall) ==
    /\ DataSignal
    /\ NameOfCall(name, index, newCall)
    /\ nSignals' = nSignals + 1
    /\ curCall' = IF index = Absent /\ newCall
                  THEN [n |-> curCall.n + 1, name |-> name] ELSE curCall
    /\ IF subscribed
       THEN LET toolName == name
                toolIndex == ResolveToolIndex(index, nextAutoIndex)
                toolKey == toolIndex
                toolUseId == ResolveToolUseId(toolCallIds, toolCallIdsByName,
                                              toolIndex, toolName)
                first == toolKey \notin emittedToolCalls
            IN  /\ emittedToolCalls' =
                      IF first THEN MarkEmitted(emittedToolCalls, toolKey)
                      ELSE emittedToolCalls
                /\ nextAutoIndex' = IF first THEN toolIndex + 1 ELSE nextAutoIndex
                /\ events' = SubscriberNext(closed, events,
                      ArgumentsDeltaEvents(first, toolUseId, toolName,
                          arguments_delta, toolIndex, index,
                          FragmentCall(index, newCall)))
                /\ arrivals' = Append(arrivals,
                      [type |-> "tool_use_input", name |-> name,
                       content |-> arguments_delta, idx |-> index])
                /\ UNCHANGED <<toolCallIds, toolCallIdsByName, closed, missed>>
       ELSE Unhandled
    /\ UNCHANGED <<auxVars, requests, providerVars, subscriptions, subscribed,
                   finalMessageCalls>>

\* Mutant of OnError: the handler does not call subscriber.error.
OnErrorSwallowed ==
    /\ phase = "streaming" /\ ~failed /\ ~aborted
    /\ failed' = TRUE
    /\ IF subscribed
       THEN UNCHANGED <<identityVars, subscriberVars, arrivals, missed>>
       ELSE Unhandled
    /\ UNCHANGED <<auxVars, requests, phase, aborted, cancelled, completion,
                   subscriptions, subscribed, nSignals, curCall,
                   finalMessageCalls>>

\* stream.on("error", ...)
OnError ==
    /\ phase = "streaming" /\ ~failed /\ ~aborted
    /\ failed' = TRUE
    /\ IF subscribed
       THEN /\ closed' = SubscriberError(closed)
            /\ UNCHANGED <<identityVars, events, arrivals, missed>>
       ELSE Unhandled
    /\ UNCHANGED <<auxVars, requests, phase, aborted, cancelled, completion,
                   subscriptions, subscribed, nSignals, curCall,
                   finalMessageCalls>>

\* The SDK stream reports a user abort with its "abort" event, for which
\* streamChat registers no listener; "end" follows.  (A transport that
\* reports the abort as an error takes OnError instead.)
OnAbort ==
    /\ phase = "streaming" /\ cancelled /\ ~failed /\ ~aborted
    /\ aborted' = TRUE
    /\ UNCHANGED <<auxVars, requests, phase, failed, cancelled, completion,
                   subscriptions, subscribed, identityVars, subscriberVars,
                   arrivals, missed, nSignals, curCall, finalMessageCalls>>

\* stream.on("finalChatCompletion", ...): when mapOaiMessageToMessage throws,
\* the exception leaves the handler before subscriber.next is reached.  The
\* SDK stream emits the final completion only when it did not fail.
OnFinalChatCompletion(c) ==
    /\ phase = "streaming" /\ ~cancelled /\ ~aborted /\ ~failed
    /\ phase' = "finalized"
    /\ completion' = Some(c)
    /\ IF subscribed
       THEN /\ events' =
                IF mapOaiMessageThrows(c.message) THEN events
                ELSE SubscriberNext(closed, events,
                        <<MessageEvent(mapOaiMessageToMessage(c.message, c.usage))>>)
            /\ UNCHANGED <<identityVars, closed, arrivals, missed>>
       ELSE Unhandled
    /\ UNCHANGED <<auxVars, requests, failed, aborted, cancelled, subscriptions,
                   subscribed, nSignals, curCall, finalMessageCalls>>

\* stream.on("end", ...): the SDK stream emits "end" last, after the final
\* completion, after an error and after an abort.
OnEnd ==
    /\ \/ phase = "finalized"
       \/ phase = "streaming" /\ (failed \/ aborted)
    /\ phase' = "ended"
    /\ IF subscribed
       THEN /\ closed' = SubscriberComplete(closed)
            /\ UNCHANGED <<identityVars, events, arrivals, missed>>
       ELSE Unhandled
    /\ UNCHANGED <<auxVars, requests, failed, aborted, cancelled, completion,
                   subscriptions, subscribed, nSignals, curCall,
                   finalMessageCalls>>

---------------------------------------------------------------------------
(* Two calls on one provider object *)

\* The data callbacks the streams of the two calls are modelled to make
CallSignals ==
    {[type |-> "content.delta", delta |-> d, toolCalls |-> Absent,
      name |-> None, index |-> Absent] : d \in ContentDeltas}
    \cup
    {[type |-> "chunk", delta |-> None,
      toolCalls |-> Some(<<[index |-> Some(0), id |-> id, name |-> "f"]>>),
      name |-> None, index |-> Absent] : id \in ToolCallIdValues}
    \cup
    {[type |-> "arguments.delta", delta |-> d, toolCalls |-> Absent,
      name |-> "f", index |-> ix] :
        d \in ArgumentDeltas, ix \in {Absent, Some(0)}}

\* One data handler run over the identity state st of a subscription: the
\* state it leaves and the events it hands to subscriber.next.  (The history
\* field call of the events is not tracked here: it holds the position.)
HandleSignal(st, sig) ==
    CASE sig.type = "content.delta" ->
            [identity |-> st,
             events |-> <<Event("text", None, None, sig.delta)>>]
      [] sig.type = "chunk" ->
            LET r == IF sig.toolCalls = Absent
                     THEN [ids |-> st.toolCallIds,
                           byName |-> st.toolCallIdsByName]
                     ELSE ChunkToolCalls(Get(sig.toolCalls), 1,
                              st.toolCallIds, st.toolCallIdsByName)
            IN  [identity |-> [st EXCEPT !.toolCallIds = r.ids,
                                         !.toolCallIdsByName = r.byName],
                 events |-> <<>>]
      [] sig.type = "arguments.delta" ->
            LET toolIndex == ResolveToolIndex(sig.index, st.nextAutoIndex)
                toolUseId == ResolveToolUseId(st.toolCallIds,
                                 st.toolCallIdsByName, toolIndex, sig.name)
                first == toolIndex \notin st.emittedToolCalls
            IN  [identity |->
                    [st EXCEPT
                       !.emittedToolCalls =
                          IF first THEN MarkEmitted(@, toolIndex) ELSE @,
                       !.nextAutoIndex = IF first THEN toolIndex + 1 ELSE @],
                 events |-> ArgumentsDeltaEvents(first, toolUseId, sig.name,
                                sig.delta, toolIndex, sig.index, toolIndex)]

\* Mutant of IdentityOwner: one identity state on the provider object,
\* shared by all calls.
IdentityOwnerShared(c) == 1

\* The closure that holds the identity state the handlers of call c use: the
\* Observable's callback of that call's own subscription.
IdentityOwner(c) == c

\* A data callback of the stream of call c
OnCallSignal(c, sig) ==
    /\ Len(calls.of[c].signals) < MaxCallSignals
    /\ LET o == IdentityOwner(c)
           r == HandleSignal(calls.of[o].identity, sig)
       IN  calls' =
             [of |-> [x \in CallIds |->
                        [identity |-> IF x = o THEN r.identity
                                      ELSE calls.of[x].identity,
                         events |-> IF x = c
                                    THEN calls.of[x].events \o r.events
                                    ELSE calls.of[x].events,
                         signals |-> IF x = c
                                     THEN Append(calls.of[x].signals, sig)
                                     ELSE calls.of[x].signals]],
              order |-> Append(calls.order, c)]
    /\ UNCHANGED <<streamVars, params, body, provider, extraction, costing>>

CallsNext == \E c \in CallIds, sig \in CallSignals : OnCallSignal(c, sig)

\* The callbacks of the two streams, interleaved in any order.
SpecCalls == Init /\ [][CallsNext]_vars

\* A call run alone: the handlers over its callbacks, from the state st
RECURSIVE RunAlone(_, _, _)
RunAlone(signals, st, evs) ==
    IF signals = <<>> THEN [identity |-> st, events |-> evs]
    ELSE LET r == HandleSignal(st, Head(signals))
         IN  RunAlone(Tail(signals), r.identity, evs \o r.events)

---------------------------------------------------------------------------

\* The data callbacks
DataNext ==
    \/ \E delta \in ContentDeltas : OnContentDelta(delta)
    \/ \E toolCalls \in ChunkToolCallLists : OnChunk(toolCalls)
    \/ \E name \in ToolNames, index \in IndexOpt, d \in ArgumentDeltas,
          newCall \in BOOLEAN : OnArgumentsDelta(name, index, d, newCall)

Next ==
    \/ \E p \in StreamParams : StreamChat(p)
    \/ Subscribe
    \/ FinalMessage
    \/ Cancel
    \/ nSignals < MaxLifecycleSignals /\ DataNext
    \/ OnError
    \/ OnAbort
    \/ \E c \in StreamCompletions : OnFinalChatCompletion(c)
    \/ OnEnd
    \/ \E i \in 1..MaxFinalMessageCalls : SettleFinalMessage(i)

\* The whole life of one streamChat call.
Spec == Init /\ [][Next]_vars

\* The finalChatCompletion handler of the subscription threw: the exception
\* left the handler into the SDK's emitter.
FinalHandlerThrew ==
    /\ phase = "finalized" /\ subscribed
    /\ mapOaiMessageThrows(Get(completion).message)

\* The scheduling the SDK stream and the event loop guarantee: "end" follows
\* the final completion, an error and an abort within the same turn, unless a
\* listener threw into the emitter before; a settled promise's continuation
\* runs.
SpecFair ==
    /\ Spec
    /\ WF_vars(~FinalHandlerThrew /\ OnEnd)
    /\ \A i \in 1..MaxFinalMessageCalls : WF_vars(SettleFinalMessage(i))

\* The state after streamChat(params) and events.subscribe(...) on its result
StreamInit ==
    /\ requests = 1
    /\ phase = "streaming"
    /\ failed = FALSE
    /\ aborted = FALSE
    /\ cancelled = FALSE
    /\ completion = Absent
    /\ subscriptions = 1
    /\ subscribed = TRUE
    /\ emittedToolCalls = {}
    /\ toolCallIds = EmptyMap
    /\ toolCallIdsByName = EmptyMap
    /\ nextAutoIndex = 0
    /\ closed = "open"
    /\ events = <<>>
    /\ arrivals = <<>>
    /\ missed = 0
    /\ nSignals = 0
    /\ curCall = [n |-> 0, name |-> None]
    /\ finalMessageCalls = <<>>
    /\ calls = NewCalls
    /\ provider = NewProvider(DefaultOptions)
    /\ extraction = Absent
    /\ costing = <<>>
    /\ params \in {Some(p) : p \in StreamParams}
    /\ body = Some(RequestBody(Get(params)))

\* An argument delta whose event.name is undefined
NamelessDelta ==
    \E index \in IndexOpt, d \in ArgumentDeltas, newCall \in BOOLEAN :
        OnArgumentsDelta(None, index, d, newCall)

StreamNext == DataNext \/ NamelessDelta

\* The reactions of a subscribed stream to the provider's data callbacks.
SpecStream == StreamInit /\ [][StreamNext]_vars

---------------------------------------------------------------------------
(* The final completion, mapped for the subscriber and for finalMessage() *)

\* The tool calls of the provider messages: function calls with parsable
\* and with malformed arguments, and a call of another kind (whose name and
\* arguments stand for its custom payload, which is not JSON).
MapperToolCalls ==
    {ToolCall("function", id, "f", a) :
        id \in ToolCallIdValues, a \in {"{}", "{\"x\":1}"}}
    \cup {ToolCall("function", "call_a", "g", "{\"x\":"),
          ToolCall("custom", "call_b", "g", "text")}

RECURSIVE SeqsUpTo(_, _)
SeqsUpTo(S, n) ==
    IF n = 0 THEN {<<>>}
    ELSE SeqsUpTo(S, n - 1)
         \cup {Append(q, x) : q \in SeqsUpTo(S, n - 1), x \in S}

DetailsOf(field) ==
    {Absent} \cup {Some([f \in {field} |-> n]) : n \in {Absent, Some(0), Some(5)}}

MapperUsages ==
    {Absent} \cup
    {Some(OaiUsage(1, 2, 3, pd, cd)) :
        pd \in DetailsOf("cached_tokens"), cd \in DetailsOf("reasoning_tokens")}

\* The final completions of the mapper's specification
MapperCompletions ==
    {[message |-> OaiMessage(content, tool_calls), usage |-> usage] :
        content \in {None, "", "Hi"},
        tool_calls \in {Absent} \cup
                       {Some(q) : q \in SeqsUpTo(MapperToolCalls, MaxToolCalls)},
        usage \in MapperUsages}

\* A subscribed stream on which finalMessage() was called
MapperInit ==
    /\ requests = 1
    /\ phase = "streaming"
    /\ failed = FALSE
    /\ aborted = FALSE
    /\ cancelled = FALSE
    /\ completion = Absent
    /\ subscriptions = 1
    /\ subscribed = TRUE
    /\ emittedToolCalls = {}
    /\ toolCallIds = EmptyMap
    /\ toolCallIdsByName = EmptyMap
    /\ nextAutoIndex = 0
    /\ closed = "open"
    /\ events = <<>>
    /\ arrivals = <<>>
    /\ missed = 0
    /\ nSignals = 0
    /\ curCall = [n |-> 0, name |-> None]
    /\ finalMessageCalls =
          <<[closed |-> "open", state |-> "pending", value |-> Absent]>>
    /\ calls = NewCalls
    /\ provider = NewProvider(DefaultOptions)
    /\ extraction = Absent
    /\ costing = <<>>
    /\ params \in {Some(p) : p \in StreamParams}
    /\ body = Some(RequestBody(Get(params)))

MapperNext ==
    \/ phase = "streaming" /\ \E c \in MapperCompletions : OnFinalChatCompletion(c)
    \/ OnEnd
    \/ \E i \in 1..MaxFinalMessageCalls : SettleFinalMessage(i)

\* The completion of a stream: the final completion is mapped for the
\* subscriber and for finalMessage().
SpecMapper == MapperInit /\ [][MapperNext]_vars

---------------------------------------------------------------------------
(* An assistant message sent to the provider and returned by it *)

\* Structured inputs of tool_use blocks
ToolInputs ==
    {[k \in {} |-> 0], [k \in {"x"} |-> 1], [k \in {"x"} |-> 2],
     [k \in {"o"} |-> [j \in {"x"} |-> 1]], [k \in {"s"} |-> "a\"b"]}

\* Calls whose one message is an assistant message with two tool_use
\* blocks, after a text block or without one
RoundTripParams ==
    {StreamChatParams("sys",
        <<[role |-> "assistant",
           content |-> texts \o <<ToolUse("call_a", n1, i1),
                                  ToolUse("call_b", n2, i2)>>]>>,
        Absent) :
        texts \in {<<>>, <<Text("a")>>},
        n1 \in ToolNames, n2 \in ToolNames,
        i1 \in ToolInputs, i2 \in ToolInputs}

\* The completion whose tool calls are those of the formatted assistant
\* message of the request b (the message after the system message)
EchoOf(b) ==
    [message |-> OaiMessage(None, b.messages[2].tool_calls), usage |-> Absent]

\* The provider completes the stream with the tool calls it was sent.
EchoCompletion ==
    /\ body # Absent
    /\ OnFinalChatCompletion(EchoOf(Get(body)))

RoundTripNext ==
    \/ phase = "idle" /\ \E p \in RoundTripParams : StreamChat(p)
    \/ Subscribe
    \/ EchoCompletion
    \/ OnEnd

SpecRoundTrip == Init /\ [][RoundTripNext]_vars

---------------------------------------------------------------------------
(* A user message formatted into the request *)

PngImage == Image("base64", "image/png", "AAAA")
BmpImage == Image("url", "image/bmp", "https://h/i.bmp")

\* The content blocks of the user messages: text, tool results with text,
\* supported and unsupported images, images, file attachments and a block
\* of a type the user branch does not map
UserBlocks ==
    {Text("a"), PngImage, BmpImage,
     ToolResult("t1", <<>>),
     ToolResult("t1", <<Text("r")>>),
     ToolResult("t1", <<BmpImage>>),
     ToolResult("t1", <<Text("42"), PngImage>>),
     ToolResult("t2", <<Text("q")>>),
     ToolResult("t2", <<BmpImage, PngImage>>),
     FileAttachment("file1", "image/png"),
     FileAttachment("file2", "application/pdf"),
     FileAttachment("file3", "image/png"),
     ToolUse("t0", "f", [k \in {} |-> 0])}

\* The file-attachment cache: file1 and file2 are cached, file3 is not
CacheMap ==
    [f \in {"file1", "file2"} |->
        [cachePath |-> "/cache/" \o f, signedUrl |-> "https://s/" \o f]]

\* Calls whose one message is a user message of up to MaxBlocks blocks, with
\* the cache map or without one
FormatParams ==
    {StreamChatParams("sys", <<[role |-> "user", content |-> content]>>, cm) :
        content \in SeqsUpTo(UserBlocks, MaxBlocks),
        cm \in {Absent, Some(CacheMap)}}

FormatNext == phase = "idle" /\ \E p \in FormatParams : StreamChat(p)

SpecFormat == Init /\ [][FormatNext]_vars

---------------------------------------------------------------------------
(* Properties of the event sequence *)

ToolUses == {i \in DOMAIN events : events[i].type = "tool_use"}
ToolUseInputs == {i \in DOMAIN events : events[i].type = "tool_use_input"}

\* C1: for every resolved position that received an argument fragment,
\* exactly one tool_use event was emitted, and it comes before the
\* position's first tool_use_input event; no other tool_use event exists.
StartBeforeFragments ==
    /\ \A i \in ToolUseInputs :
          /\ Cardinality({j \in ToolUses : events[j].pos = events[i].pos}) = 1
          /\ \E j \in ToolUses : j < i /\ events[j].pos = events[i].pos
    /\ \A j \in ToolUses :
          \E i \in ToolUseInputs : events[i].pos = events[j].pos

\* Two positions received fragments, one of them twice.
StartBeforeFragmentsWitness ==
    /\ \E i, j \in ToolUseInputs : i < j /\ events[i].pos = events[j].pos
    /\ \E i, j \in ToolUseInputs : events[i].pos # events[j].pos

\* C2: all tool_use_input events of one resolved position carry the same
\* toolUseId and the same toolName.
IdentityStability ==
    \A i, j \in ToolUseInputs :
        events[i].pos = events[j].pos =>
            /\ events[i].toolUseId = events[j].toolUseId
            /\ events[i].toolName = events[j].toolName

\* No fragment reported an index and no chunk fragment carried an id.
NoIndexNoId ==
    /\ \A i \in DOMAIN events : events[i].idx = Absent
    /\ DOMAIN toolCallIds = {}
    /\ DOMAIN toolCallIdsByName = {}

\* C3: in a stream without indices and ids, the fragments of one provider
\* tool call carry one toolUseId and the fragments of different calls carry
\* different toolUseIds.
FallbackCoverage ==
    NoIndexNoId =>
        \A i, j \in ToolUseInputs :
            (events[i].call = events[j].call)
                <=> (events[i].toolUseId = events[j].toolUseId)

\* Every fragment reported an index, or none did.
UniformIndexReporting ==
    \/ \A i \in DOMAIN arrivals : arrivals[i].idx = Absent
    \/ \A i \in DOMAIN arrivals :
          arrivals[i].type = "tool_use_input" => arrivals[i].idx # Absent

\* C4: with an index on every fragment or on none, no two tool_use events
\* of the stream carry the same toolUseId.
StartOncePerInvocation ==
    UniformIndexReporting =>
        \A i, j \in ToolUses :
            events[i].toolUseId = events[j].toolUseId => i = j

\* C5: every tool_use_input event is preceded by a tool_use event with the
\* same toolUseId.
StartPrecedesInputById ==
    \A i \in ToolUseInputs :
        \E j \in ToolUses :
            j < i /\ events[j].toolUseId = events[i].toolUseId

\* The text and tool_use_input events, as the deltas they carry
RECURSIVE DeltasOf(_)
DeltasOf(evs) ==
    IF evs = <<>> THEN <<>>
    ELSE LET e == Head(evs)
         IN  (IF e.type \in {"text", "tool_use_input"}
              THEN <<[type |-> e.type, name |-> e.toolName,
                      content |-> e.content, idx |-> e.idx]>>
              ELSE <<>>) \o DeltasOf(Tail(evs))

\* C6: while the subscriber is open, its text and tool_use_input events are,
\* one to one and in order, the content deltas and argument fragments that
\* arrived, each with its text unchanged.
DeltasInArrivalOrder ==
    closed = "open" => DeltasOf(events) = arrivals

\* Text arrived between the fragments of two tool calls.
DeltasInArrivalOrderWitness ==
    \E i, j, k \in DOMAIN events :
        /\ i < j /\ j < k
        /\ events[i].type = "tool_use_input"
        /\ events[j].type = "text"
        /\ events[k].type = "tool_use_input"
        /\ events[i].pos # events[k].pos

---------------------------------------------------------------------------
(* Properties of termination *)

Messages == {i \in DOMAIN events : events[i].type = "message"}

\* The one message event is the last event and carries the mapped completion.
MessageIsLast ==
    /\ Cardinality(Messages) = 1
    /\ events # <<>>
    /\ events[Len(events)].type = "message"
    /\ completion # Absent
    /\ events[Len(events)].message =
          Some(mapOaiMessageToMessage(Get(completion).message,
                                      Get(completion).usage))

\* C7: when the provider stream completed without error, the subscriber has
\* received exactly one message event, the mapped final completion, as its
\* last event, and the sequence then completes.
MessageOnCompletion ==
    /\ phase = "finalized" /\ ~failed /\ subscribed => MessageIsLast
    /\ phase = "ended" /\ ~failed /\ ~aborted /\ closed # "open" =>
          closed = "complete" /\ MessageIsLast

\* C8: an error of the provider stream terminates the event sequence with the
\* error; afterwards nothing is delivered to the subscriber, whatever
\* callback arrives, and no request is issued.
ErrorTerminates ==
    /\ [](failed /\ subscribed /\ phase = "streaming" => closed = "error")
    /\ [][closed = "error" =>
            closed' = "error" /\ events' = events /\ requests' = requests]_vars

\* After the error a data callback reached the handlers and "end" arrived.
ErrorTerminatesWitness ==
    /\ closed = "error"
    /\ phase = "ended"
    /\ events # <<>>
    /\ Len(arrivals) > Len(DeltasOf(events))

\* C9: a stream cancelled in flight terminates with an error, never with a
\* normal completion.
CancelIsError ==
    cancelled /\ phase = "ended" /\ closed # "open" => closed = "error"

\* C10: one streamChat call issues exactly one provider request, whatever
\* the subscriptions and finalMessage() calls.
OneRequest ==
    requests = IF phase = "idle" THEN 0 ELSE 1

\* Two subscriptions, and finalMessage() called after the event sequence was
\* consumed to its completion.
OneRequestWitness ==
    /\ subscriptions >= 2
    /\ \E i \in DOMAIN finalMessageCalls :
          finalMessageCalls[i].closed = "complete"

---------------------------------------------------------------------------
(* Properties of finalMessage() *)

\* The provider stream terminated: it completed, failed or was aborted.
Terminated == phase \in {"finalized", "ended"} \/ failed \/ aborted

Pending(i) ==
    i \in DOMAIN finalMessageCalls /\ finalMessageCalls[i].state = "pending"

\* C11: a finalMessage() call is eventually settled once the provider stream
\* has terminated, and after a completion that maps without error it is
\* resolved with the mapped final message, whatever the subscriber was when
\* it was called.
FinalMessageSettles ==
    /\ \A i \in 1..MaxFinalMessageCalls :
          [](Pending(i) /\ Terminated => <>(~Pending(i)))
    /\ [](\A i \in DOMAIN finalMessageCalls :
            /\ finalMessageCalls[i].state # "pending"
            /\ ~failed /\ ~aborted
            /\ ~mapOaiMessageThrows(Get(completion).message)
            => /\ finalMessageCalls[i].state = "resolved"
               /\ finalMessageCalls[i].value =
                     Some(mapOaiMessageToMessage(Get(completion).message,
                                                 Get(completion).usage)))

---------------------------------------------------------------------------
(* Properties of concurrent calls *)

\* C12: whatever the interleaving of the callbacks of two calls, each call's
\* events and identity state are those of the call run alone over its own
\* callbacks from the empty identity state.
CallIsolation ==
    \A c \in CallIds :
        LET alone == RunAlone(calls.of[c].signals, NewIdentityState, <<>>)
        IN  /\ calls.of[c].events = alone.events
            /\ calls.of[c].identity = alone.identity

\* The callbacks of the two calls alternated, and the calls started a tool
\* call at the same position under different ids.
CallIsolationWitness ==
    /\ \E i, j, k \in DOMAIN calls.order :
          /\ i < j /\ j < k
          /\ calls.order[i] = 1 /\ calls.order[j] = 2 /\ calls.order[k] = 1
    /\ \E i \in DOMAIN calls.of[1].events, j \in DOMAIN calls.of[2].events :
          /\ calls.of[1].events[i].type = "tool_use"
          /\ calls.of[2].events[j].type = "tool_use"
          /\ calls.of[1].events[i].pos = calls.of[2].events[j].pos
          /\ calls.of[1].events[i].toolUseId # calls.of[2].events[j].toolUseId

---------------------------------------------------------------------------
(* Properties of one argument delta *)

\* The events a step handed to the subscriber
NewEvents == SubSeq(events', Len(events) + 1, Len(events'))

\* An argument delta reached the handler in this step
ArgumentsDeltaStep ==
    /\ Len(arrivals') = Len(arrivals) + 1
    /\ arrivals'[Len(arrivals')].type = "tool_use_input"

\* C13: the events of every argument delta carry the id recorded for the
\* resolved position if one is recorded, else the id recorded for the tool
\* name if one is recorded, else fallback_<position>; the step emits its
\* tool_use_input event, whatever is missing, and leaves the subscriber open.
ToolUseIdResolution ==
    [][ArgumentsDeltaStep =>
         /\ closed' = closed
         /\ NewEvents # <<>>
         /\ NewEvents[Len(NewEvents)].type = "tool_use_input"
         /\ \A k \in DOMAIN NewEvents :
               LET e == NewEvents[k]
                   p == Get(e.pos)
               IN  /\ e.toolUseId # None
                   /\ p \in DOMAIN toolCallIds => e.toolUseId = toolCallIds[p]
                   /\ p \notin DOMAIN toolCallIds
                         /\ e.toolName \in DOMAIN toolCallIdsByName
                         => e.toolUseId = toolCallIdsByName[e.toolName]
                   /\ p \notin DOMAIN toolCallIds
                         /\ e.toolName \notin DOMAIN toolCallIdsByName
                         => e.toolUseId = "fallback_" \o ToString(p)]_vars

\* A fragment took the id recorded for its name, its position having none,
\* and a later fragment without index and without name took the fallback id.
ToolUseIdResolutionWitness ==
    \E i, j \in ToolUseInputs :
        /\ i < j
        /\ Get(events[i].pos) \notin DOMAIN toolCallIds
        /\ events[i].toolName \in DOMAIN toolCallIdsByName
        /\ events[i].toolUseId = toolCallIdsByName[events[i].toolName]
        /\ events[j].idx = Absent
        /\ events[j].toolName = None
        /\ events[j].toolUseId = "fallback_" \o ToString(Get(events[j].pos))

---------------------------------------------------------------------------
(* Properties of a malformed final completion *)

\* The final completion holds a function tool call whose arguments are not
\* valid JSON.
MalformedCompletion ==
    completion # Absent /\ mapOaiMessageThrows(Get(completion).message)

\* C14: after a final completion with a malformed argument string the event
\* sequence of a subscribed stream is terminated with an error and holds no
\* message event, every settled finalMessage() call is rejected, and no
\* message with a tool_use block without parsed input exists.
MalformedReported ==
    MalformedCompletion =>
        /\ phase = "finalized" /\ subscribed =>
              closed = "error" /\ Messages = {}
        /\ \A i \in DOMAIN finalMessageCalls :
              /\ finalMessageCalls[i].state # "resolved"
              /\ finalMessageCalls[i].value = Absent
        /\ \A i \in Messages :
              \A k \in DOMAIN Get(events[i].message).content :
                  Get(events[i].message).content[k].type = "tool_use" =>
                      Get(events[i].message).content[k].input # Absent

---------------------------------------------------------------------------
(* Properties of the response mapper *)

\* The final messages produced: the message events and the values of the
\* resolved finalMessage() calls
Produced ==
    {Get(events[i].message) : i \in Messages}
    \cup {Get(finalMessageCalls[i].value) :
            i \in {k \in DOMAIN finalMessageCalls :
                        finalMessageCalls[k].state = "resolved"}}

ProviderMessage == Get(completion).message
ProviderCalls ==
    IF ProviderMessage.tool_calls = Absent THEN <<>>
    ELSE Get(ProviderMessage.tool_calls)

\* C15: the stop_reason of a produced final message is tool_use when the
\* provider message carries at least one tool call, of whatever kind, and
\* end_turn when its tool-call list is absent or empty.
StopReasonByToolCalls ==
    \A m \in Produced :
        /\ m.stop_reason \in {"tool_use", "end_turn"}
        /\ m.stop_reason = "tool_use" <=> DOMAIN ProviderCalls # {}

\* Both surfaces produced a message for a provider message whose tool-call
\* list is present and empty.
StopReasonByToolCallsWitness ==
    /\ Cardinality(Messages) = 1
    /\ \E i \in DOMAIN finalMessageCalls :
          finalMessageCalls[i].state = "resolved"
    /\ ProviderMessage.tool_calls = Some(<<>>)
    /\ \A m \in Produced : m.stop_reason = "end_turn"

\* The place in content of the block of the j-th provider tool call, a
\* function call: after the text block and the function calls before it
BlockOf(j) ==
    1 + Cardinality({k \in 1..j : ProviderCalls[k].type = "function"})

\* C16: the content of a produced final message is one text block, holding
\* the provider's text or "", followed by one tool_use block per function
\* tool call, in provider order, with the call's id, name and parsed
\* arguments; tool calls of other kinds have no block.
ContentBlocks ==
    \A m \in Produced :
        /\ Len(m.content) =
              1 + Cardinality({k \in DOMAIN ProviderCalls :
                                  ProviderCalls[k].type = "function"})
        /\ m.content[1].type = "text"
        /\ m.content[1].text =
              IF ProviderMessage.content = None THEN ""
              ELSE ProviderMessage.content
        /\ \A j \in DOMAIN ProviderCalls :
              ProviderCalls[j].type = "function" =>
                  LET b == m.content[BlockOf(j)]
                  IN  /\ b.type = "tool_use"
                      /\ b.toolUseId = ProviderCalls[j].id
                      /\ b.name = ProviderCalls[j].name
                      /\ b.input # Absent
                      /\ b.input = JSONParse(ProviderCalls[j].arguments)

\* A message was produced for a provider message without text whose tool
\* calls are one of another kind followed by a function call.
ContentBlocksWitness ==
    /\ Produced # {}
    /\ ProviderMessage.content = None
    /\ Len(ProviderCalls) = 2
    /\ ProviderCalls[1].type = "custom"
    /\ ProviderCalls[2].type = "function"
    /\ \A m \in Produced : Len(m.content) = 2 /\ m.content[1].text = ""

ProviderUsage == Get(completion).usage

\* C17: the usage of a produced final message is absent exactly when the
\* provider supplied none; otherwise it holds the prompt, completion and
\* total counts, and cacheRead and thinking are the reported cached and
\* reasoning counts, 0 included, absent when the provider reported none.
UsageMapping ==
    \A m \in Produced :
        /\ m.usage = Absent <=> ProviderUsage = Absent
        /\ m.usage # Absent =>
              LET u == Get(m.usage)
                  p == Get(ProviderUsage)
              IN  /\ u.input.total = p.prompt_tokens
                  /\ u.output.total = p.completion_tokens
                  /\ u.total = p.total_tokens
                  /\ \A n \in 0..5 :
                        /\ u.input.cacheRead = Some(n) <=>
                              /\ p.prompt_tokens_details # Absent
                              /\ Get(p.prompt_tokens_details).cached_tokens
                                    = Some(n)
                        /\ u.output.thinking = Some(n) <=>
                              /\ p.completion_tokens_details # Absent
                              /\ Get(p.completion_tokens_details)
                                    .reasoning_tokens = Some(n)
                  /\ u.input.cacheRead = Absent
                        \/ \E n \in 0..5 : u.input.cacheRead = Some(n)
                  /\ u.output.thinking = Absent
                        \/ \E n \in 0..5 : u.output.thinking = Some(n)

\* A message was produced whose usage reports 0 cached tokens and no
\* reasoning count.
UsageMappingWitness ==
    \E m \in Produced :
        /\ m.usage # Absent
        /\ Get(m.usage).input.cacheRead = Some(0)
        /\ Get(m.usage).output.thinking = Absent
        /\ Get(ProviderUsage).completion_tokens_details # Absent

---------------------------------------------------------------------------
(* Properties of the round trip *)

\* The tool_use blocks of a content, in order
ToolUseBlocksOf(content) == SelectSeq(content, LAMBDA c : c.type = "tool_use")

\* C18: the final message mapped from a completion that carries the tool
\* calls of the formatted assistant message holds, for the two tool_use
\* blocks of that message and in their order, two tool_use blocks with the
\* same names and equal inputs.
RoundTrip ==
    \A i \in Messages :
        LET sent == ToolUseBlocksOf(Get(params).messages[1].content)
            got == ToolUseBlocksOf(Get(events[i].message).content)
        IN  /\ Len(sent) = 2
            /\ Len(got) = 2
            /\ \A k \in 1..2 :
                  /\ got[k].name = sent[k].name
                  /\ got[k].input = Some(sent[k].input)

\* A message came back for two tool_use blocks of different names, one with
\* a nested object and one with a string that needs escaping.
RoundTripWitness ==
    \E i \in Messages :
        LET got == ToolUseBlocksOf(Get(events[i].message).content)
        IN  /\ Len(got) = 2
            /\ got[1].name # got[2].name
            /\ got[1].input = Some([k \in {"o"} |-> [j \in {"x"} |-> 1]])
            /\ got[2].input = Some([k \in {"s"} |-> "a\"b"])

---------------------------------------------------------------------------
(* Properties of the formatted user message *)

\* The content blocks of the one message of the call
SentContent == Get(params).messages[1].content
\* The messages of the request after the system message
Wire == Tail(Get(body).messages)
ToolResultsOf(content) ==
    SelectSeq(content, LAMBDA c : c.type = "tool_result")
WireOfRole(role) == {i \in DOMAIN Wire : Wire[i].role = role}

\* C19: the request holds one tool message per tool_result block of the user
\* message, in the order of the blocks and with their tool call ids, and
\* every tool message stands before the user-role message.
ToolMessagesFirst ==
    body # Absent =>
        LET results == ToolResultsOf(SentContent)
        IN  /\ WireOfRole("tool") = 1..Len(results)
            /\ \A k \in 1..Len(results) :
                  Wire[k].tool_call_id = results[k].toolUseId
            /\ \A i \in WireOfRole("tool"), j \in WireOfRole("user") : i < j

\* The user message starts with text, its tool_result blocks for two tool
\* calls follow, the first of them with an image: the two tool messages
\* stand before the user-role message.
ToolMessagesFirstWitness ==
    /\ body # Absent
    /\ Len(SentContent) = 3
    /\ SentContent[1].type = "text"
    /\ SentContent[2].type = "tool_result"
    /\ SentContent[3].type = "tool_result"
    /\ SentContent[2].toolUseId # SentContent[3].toolUseId
    /\ Len(Wire) = 3
    /\ Wire[1].role = "tool" /\ Wire[1].tool_call_id = SentContent[2].toolUseId
    /\ Wire[2].role = "tool" /\ Wire[2].tool_call_id = SentContent[3].toolUseId
    /\ Wire[3].role = "user" /\ Len(Wire[3].content) = 2

\* The block yields at least one content part of the main message: a text
\* block, an image block, a tool_result block with an image of a supported
\* type, a file attachment found in the cache map.
YieldsPart(c) ==
    \/ c.type = "text"
    \/ c.type = "image"
    \/ /\ c.type = "tool_result"
       /\ \E k \in DOMAIN c.content :
             /\ c.content[k].type = "image"
             /\ c.content[k].source.mediaType \in
                   {"image/jpeg", "image/png", "image/gif", "image/webp"}
    \/ /\ c.type = "file_attachment"
       /\ Get(params).fileAttachmentCacheMap # Absent
       /\ c.fileId \in DOMAIN Get(Get(params).fileAttachmentCacheMap)

\* C20: the request holds a user-role message exactly when a block of the
\* user message yields a content part, there is at most one, and its content
\* is not empty.
MainMessagePresence ==
    body # Absent =>
        /\ WireOfRole("user") # {} <=>
              \E k \in DOMAIN SentContent : YieldsPart(SentContent[k])
        /\ Cardinality(WireOfRole("user")) <= 1
        /\ \A i \in WireOfRole("user") : Len(Wire[i].content) > 0

\* A user message of a tool_result block with an unsupported image only, an
\* attachment that is not cached and a block of an unmapped type: the
\* request holds the tool message and no user-role message.
MainMessagePresenceWitness ==
    /\ body # Absent
    /\ Len(SentContent) = 3
    /\ \E k \in 1..3 :
          /\ SentContent[k].type = "tool_result"
          /\ SentContent[k].content # <<>>
          /\ \A j \in DOMAIN SentContent[k].content :
                SentContent[k].content[j].type = "image"
    /\ \E k \in 1..3 : SentContent[k].type = "file_attachment"
    /\ Get(params).fileAttachmentCacheMap # Absent
    /\ WireOfRole("user") = {}
    /\ Cardinality(WireOfRole("tool")) = 1

---------------------------------------------------------------------------
(* Properties of the tool messages and of the parts of the main message *)

\* The image reference of a supported image block: a data URI of its
\* base64 payload, else its URL
PayloadUrl(block) ==
    IF block.source.type = "base64"
    THEN "data:" \o block.source.mediaType \o ";base64," \o block.source.data
    ELSE block.source.url

Supported(block) ==
    block.source.mediaType \in
        {"image/jpeg", "image/png", "image/gif", "image/webp"}

\* The text and image sub-blocks of a tool_result block
SubBlocks(c) ==
    SelectSeq(c.content, LAMBDA b : b.type = "text" \/ b.type = "image")

\* The number of sub-blocks of the tool_result blocks of the message
SubBlockCount ==
    LET results == ToolResultsOf(SentContent)
    IN  Len(Flat([k \in DOMAIN results |-> results[k].content]))

\* What a tool message holds for a sub-block, n being the number of the
\* placeholder when the sub-block is an image of a supported type
SubBlockText(b, n) ==
    IF b.type = "text" THEN b.text
    ELSE IF Supported(b) THEN "[See image " \o ToString(n) \o " below]"
    ELSE "[Unsupported image type: " \o b.source.mediaType \o "]"

\* The user-role messages of the request
MainMessages == SelectSeq(Wire, LAMBDA m : m.role = "user")

\* C21: every tool_result block of the user message yields one tool message
\* with the block's toolUseId, whose content is the newline-join, in
\* sub-block order, of the texts, of a placeholder [See image N below] per
\* supported image and of the descriptive text per unsupported image; the
\* reference of every supported image is a part of the user-role message,
\* and a tool message holds nothing but its role, text and tool call id.
ToolResultContent ==
    body # Absent =>
        LET results == ToolResultsOf(SentContent)
        IN  /\ Len(SelectSeq(Wire, LAMBDA m : m.role = "tool")) = Len(results)
            /\ \A k \in 1..Len(results) :
                  LET sub == SubBlocks(results[k])
                  IN  /\ Wire[k].role = "tool"
                      /\ DOMAIN Wire[k] = {"role", "content", "tool_call_id"}
                      /\ Wire[k].tool_call_id = results[k].toolUseId
                      /\ \E ns \in [DOMAIN sub -> 1..SubBlockCount] :
                            Wire[k].content =
                               Join([j \in DOMAIN sub |->
                                        SubBlockText(sub[j], ns[j])], "\n")
                      /\ \A j \in DOMAIN sub :
                            sub[j].type = "image" /\ Supported(sub[j]) =>
                               /\ Len(MainMessages) = 1
                               /\ \E q \in DOMAIN MainMessages[1].content :
                                     MainMessages[1].content[q] =
                                        [type |-> "image_url",
                                         image_url |->
                                            [url |-> PayloadUrl(sub[j]),
                                             detail |-> "high"]]

\* The user message is one tool_result block with the text "42" and one
\* supported image: the request holds the tool message with the text and
\* the placeholder of image 1, then the user-role message with the image.
ToolResultContentWitness ==
    /\ body # Absent
    /\ Len(SentContent) = 1
    /\ SentContent[1].type = "tool_result"
    /\ Len(SentContent[1].content) = 2
    /\ SentContent[1].content[1] = [type |-> "text", text |-> "42"]
    /\ SentContent[1].content[2].type = "image"
    /\ Supported(SentContent[1].content[2])
    /\ Len(Wire) = 2
    /\ Wire[1] = [role |-> "tool", content |-> "42\n[See image 1 below]",
                  tool_call_id |-> SentContent[1].toolUseId]
    /\ Wire[2].role = "user"
    /\ Wire[2].content =
          <<[type |-> "image_url",
             image_url |-> [url |-> PayloadUrl(SentContent[1].content[2]),
                            detail |-> "high"]]>>

\* The first sub-block of sub that is an image of a supported type, 0 when
\* there is none
FirstSupported(sub) ==
    LET at == {j \in DOMAIN sub : sub[j].type = "image" /\ Supported(sub[j])}
    IN  IF at = {} THEN 0 ELSE CHOOSE j \in at : \A h \in at : j <= h

\* C22: in every tool_result block of a user message the first image
\* sub-block of a supported type gets the placeholder [See image 1 below],
\* whatever the earlier tool_result blocks of the message held.
PlaceholderPerScan ==
    body # Absent =>
        LET results == ToolResultsOf(SentContent)
        IN  \A k \in 1..Len(results) :
               LET sub == SubBlocks(results[k])
                   first == FirstSupported(sub)
               IN  first # 0 =>
                      \E ns \in [DOMAIN sub -> 1..SubBlockCount] :
                         /\ ns[first] = 1
                         /\ Wire[k].content =
                               Join([j \in DOMAIN sub |->
                                        SubBlockText(sub[j], ns[j])], "\n")

\* The cache map holds no entry for the file attachment c
Unresolved(c) ==
    /\ c.type = "file_attachment"
    /\ \/ Get(params).fileAttachmentCacheMap = Absent
       \/ c.fileId \notin DOMAIN Get(Get(params).fileAttachmentCacheMap)

\* The content without its k-th block
Without(content, k) ==
    SubSeq(content, 1, k - 1) \o SubSeq(content, k + 1, Len(content))

\* C23: a file attachment without a cache entry (or without a cache map) is
\* dropped: the messages of the request are those of the user message
\* formatted without that block, the numbers of the other attachments
\* included.
AttachmentDegradation ==
    body # Absent =>
        \A k \in DOMAIN SentContent :
           Unresolved(SentContent[k]) =>
              Wire = formatInputMessage(
                        [role |-> "user", content |-> Without(SentContent, k)],
                        Get(params).fileAttachmentCacheMap)

\* An attachment that is not cached stands between two cached ones: the
\* main message holds the parts of the two, numbered 1 and 2.
AttachmentDegradationWitness ==
    /\ body # Absent
    /\ Len(SentContent) = 3
    /\ \A k \in 1..3 : SentContent[k].type = "file_attachment"
    /\ ~Unresolved(SentContent[1])
    /\ Unresolved(SentContent[2])
    /\ ~Unresolved(SentContent[3])
    /\ SentContent[1].mimeType = "image/png"
    /\ SentContent[3] = [type |-> "file_attachment", fileId |-> "file2",
                         mimeType |-> "application/pdf"]
    /\ Len(Wire) = 1
    /\ Len(Wire[1].content) = 3
    /\ Wire[1].content[3] =
          [type |-> "text",
           text |-> "Attachment 2:\nMIME type: application/pdf\nCached at: /cache/file2"]

\* The number of content parts of the main message a block yields
PartCount(c) ==
    IF c.type = "text" \/ c.type = "image" THEN 1
    ELSE IF c.type = "tool_result"
    THEN Cardinality({j \in DOMAIN c.content :
                        c.content[j].type = "image" /\ Supported(c.content[j])})
    ELSE IF c.type = "file_attachment" /\ ~Unresolved(c)
    THEN IF c.mimeType \in {"image/jpeg", "image/png", "image/gif", "image/webp"}
         THEN 2 ELSE 1
    ELSE 0

\* The number of content parts the blocks before the k-th block yield
PartsBefore(k) ==
    Len(Flat([j \in 1..(k - 1) |->
                 [q \in 1..PartCount(SentContent[j]) |-> j]]))

\* The content of the user-role message of the request, empty without one
MainContent ==
    IF MainMessages = <<>> THEN <<>> ELSE MainMessages[1].content

\* The number of cached file attachments among the first k blocks
AttachmentRank(k) ==
    Cardinality({j \in 1..k : /\ SentContent[j].type = "file_attachment"
                              /\ ~Unresolved(SentContent[j])})

\* C24: a file attachment found in the cache map contributes, at its place
\* among the parts of the main message, a text part numbered "Attachment k"
\* with its MIME type and cache path, k being its rank among the cached
\* attachments of the message; an image part of the signed URL follows
\* exactly when the MIME type is JPEG, PNG, GIF or WEBP.
ResolvedAttachmentParts ==
    body # Absent =>
        /\ Len(MainContent) = PartsBefore(Len(SentContent) + 1)
        /\ \A k \in DOMAIN SentContent :
              LET c == SentContent[k]
                  q == PartsBefore(k) + 1
              IN  c.type = "file_attachment" /\ ~Unresolved(c) =>
                     LET cache == Get(Get(params).fileAttachmentCacheMap)[c.fileId]
                     IN  /\ MainContent[q] =
                               [type |-> "text",
                                text |-> "Attachment "
                                         \o ToString(AttachmentRank(k))
                                         \o ":\nMIME type: " \o c.mimeType
                                         \o "\nCached at: " \o cache.cachePath]
                         /\ (c.mimeType \in {"image/jpeg", "image/png",
                                              "image/gif", "image/webp"})
                            <=> /\ q + 1 \in DOMAIN MainContent
                                /\ MainContent[q + 1] =
                                      [type |-> "image_url",
                                       image_url |->
                                          [url |-> cache.signedUrl,
                                           detail |-> "high"]]

\* A text block, a cached PDF and a cached PNG: the main message holds the
\* text, "Attachment 1" alone, then "Attachment 2" followed by the image of
\* its signed URL.
ResolvedAttachmentPartsWitness ==
    /\ body # Absent
    /\ Len(SentContent) = 3
    /\ SentContent[1].type = "text"
    /\ SentContent[2] = [type |-> "file_attachment", fileId |-> "file2",
                         mimeType |-> "application/pdf"]
    /\ SentContent[3] = [type |-> "file_attachment", fileId |-> "file1",
                         mimeType |-> "image/png"]
    /\ ~Unresolved(SentContent[2]) /\ ~Unresolved(SentContent[3])
    /\ Len(MainContent) = 4
    /\ MainContent[2].text =
          "Attachment 1:\nMIME type: application/pdf\nCached at: /cache/file2"
    /\ MainContent[3].text =
          "Attachment 2:\nMIME type: image/png\nCached at: /cache/file1"
    /\ MainContent[4].type = "image_url"
    /\ MainContent[4].image_url.url = "https://s/file1"

---------------------------------------------------------------------------
(* Image blocks mapped into the request *)

\* The media types of the image blocks: the four supported ones, an image
\* type and a document type that are not supported
MediaTypes ==
    {"image/jpeg", "image/png", "image/gif", "image/webp", "image/bmp",
     "application/pdf"}

\* The image blocks: base64 and URL sources of every media type
ImageBlocks ==
    {Image("base64", mt, "AAAA") : mt \in MediaTypes}
    \cup {Image("url", mt, "https://h/i") : mt \in MediaTypes}

\* Calls whose one message is a user message of up to MaxImages image blocks
ImageParams ==
    {StreamChatParams("sys", <<[role |-> "user", content |-> content]>>,
                      Absent) :
        content \in SeqsUpTo(ImageBlocks, MaxImages)}

ImageNext == phase = "idle" /\ \E p \in ImageParams : StreamChat(p)

SpecImage == Init /\ [][ImageNext]_vars

\* C25: an image block maps to an image reference exactly when its media
\* type is JPEG, PNG, GIF or WEBP: the base64 data URI of a base64 source,
\* else the source URL, with detail high; any other media type maps to a
\* text part that names the media type.
ImageMapping ==
    body # Absent =>
        \A k \in DOMAIN SentContent :
           LET c == SentContent[k]
               part == MainContent[PartsBefore(k) + 1]
           IN  c.type = "image" =>
                  IF c.source.mediaType \in {"image/jpeg", "image/png",
                                             "image/gif", "image/webp"}
                  THEN part = [type |-> "image_url",
                               image_url |->
                                  [url |-> IF c.source.type = "base64"
                                           THEN "data:" \o c.source.mediaType
                                                \o ";base64," \o c.source.data
                                           ELSE c.source.url,
                                   detail |-> "high"]]
                  ELSE /\ part = [type |-> "text",
                                  text |-> "[Unsupported image type: "
                                           \o c.source.mediaType \o "]"]
                       /\ "image_url" \notin DOMAIN part

\* A WEBP image by URL and a PDF in base64: the main message holds the
\* reference of the URL, then the text that names application/pdf.
ImageMappingWitness ==
    /\ body # Absent
    /\ Len(SentContent) = 2
    /\ SentContent[1].type = "image"
    /\ SentContent[1].source.type = "url"
    /\ SentContent[1].source.mediaType = "image/webp"
    /\ SentContent[2].type = "image"
    /\ SentContent[2].source.type = "base64"
    /\ SentContent[2].source.mediaType = "application/pdf"
    /\ MainContent =
          <<[type |-> "image_url",
             image_url |-> [url |-> SentContent[1].source.url,
                            detail |-> "high"]],
            [type |-> "text",
             text |-> "[Unsupported image type: application/pdf]"]>>

---------------------------------------------------------------------------
(* An assistant message formatted into the request *)

\* The content blocks of the assistant messages: texts, tool_use blocks and
\* a block of a type the assistant branch does not map
AssistantBlocks ==
    {Text("a"), Text("b"),
     ToolUse("call_a", "f", [k \in {"x"} |-> 1]),
     ToolUse("call_b", "g", [k \in {} |-> 0]),
     PngImage}

\* Calls whose one message is an assistant message of up to MaxBlocks blocks
AssistantParams ==
    {StreamChatParams("sys", <<[role |-> "assistant", content |-> content]>>,
                      Absent) :
        content \in SeqsUpTo(AssistantBlocks, MaxBlocks)}

AssistantNext == phase = "idle" /\ \E p \in AssistantParams : StreamChat(p)

SpecAssistant == Init /\ [][AssistantNext]_vars

\* C26: an assistant message is formatted to one message whose content is
\* the text parts of its text blocks, in order, and whose tool-call list
\* holds, in order, the id, the function name and the JSON text of the
\* input of its tool_use blocks; the list is present exactly when the
\* message has a tool_use block.
AssistantFormat ==
    body # Absent =>
        LET texts == SelectSeq(SentContent, LAMBDA c : c.type = "text")
            uses == SelectSeq(SentContent, LAMBDA c : c.type = "tool_use")
        IN  /\ Len(Wire) = 1
            /\ Wire[1].role = "assistant"
            /\ Wire[1].content =
                  [i \in DOMAIN texts |->
                      [type |-> "text", text |-> texts[i].text]]
            /\ Wire[1].tool_calls # Absent <=> uses # <<>>
            /\ uses # <<>> =>
                  LET calls_ == Get(Wire[1].tool_calls)
                  IN  /\ Len(calls_) = Len(uses)
                      /\ \A i \in DOMAIN uses :
                            /\ calls_[i].id = uses[i].toolUseId
                            /\ calls_[i].type = "function"
                            /\ calls_[i].name = uses[i].name
                            /\ JSONParse(calls_[i].arguments) =
                                  Some(uses[i].input)

\* A tool_use block, a text block, a second tool_use block: the message
\* holds the one text part and the two tool calls in the order of the
\* blocks.
AssistantFormatWitness ==
    /\ body # Absent
    /\ Len(SentContent) = 3
    /\ SentContent[1].type = "tool_use"
    /\ SentContent[2].type = "text"
    /\ SentContent[3].type = "tool_use"
    /\ SentContent[1].toolUseId # SentContent[3].toolUseId
    /\ Len(Wire[1].content) = 1
    /\ Wire[1].tool_calls # Absent
    /\ Len(Get(Wire[1].tool_calls)) = 2
    /\ Get(Wire[1].tool_calls)[1].id = SentContent[1].toolUseId
    /\ Get(Wire[1].tool_calls)[2].id = SentContent[3].toolUseId

---------------------------------------------------------------------------
(* The reasoning-effort hint of the request *)

\* Model names, as sequences of characters
ModelNames ==
    {<<"o", "1">>,
     <<"o", "1", "-", "m", "i", "n", "i">>,
     <<"o", "3">>,
     <<"o", "3", "-", "m", "i", "n", "i">>,
     <<"o", "4", "-", "m", "i", "n", "i">>,
     <<"g", "p", "t", "-", "5">>,
     <<"g", "p", "t", "-", "5", "-", "m", "i", "n", "i">>,
     <<"g", "p", "t", "-", "5", ".", "1">>,
     <<"g", "p", "t", "-", "5", "-", "c", "h", "a", "t">>,
     <<"g", "p", "t", "-", "5", "-", "c", "h", "a", "t", "-", "l", "a", "t", "e", "s", "t">>,
     <<"g", "p", "t", "-", "5", "-", "c", "h", "a">>,
     <<"g", "p", "t", "-", "4", "o">>,
     <<"g", "p", "t", "-", "4", ".", "1">>,
     <<"o">>}

\* The options of the constructor: a model name, and a reasoning effort or
\* none
ProviderOptions ==
    [model : ModelNames, reasoningEffort : {None, "low", "medium", "high"}]

ReasoningInit == \E o \in ProviderOptions : Constructed(o)

ReasoningNext == phase = "idle" /\ \E p \in StreamParams : StreamChat(p)

SpecReasoning == ReasoningInit /\ [][ReasoningNext]_vars

\* The name begins with the prefix
BeginsWith(name, prefix) ==
    \A i \in DOMAIN prefix : i \in DOMAIN name /\ name[i] = prefix[i]

\* C27: the request carries a reasoning effort exactly when the model name
\* begins with o1, o3, o4, or with gpt-5 but not with gpt-5-chat; its value
\* is the effort the provider was configured with, low when none was.
ReasoningEffortHint ==
    body # Absent =>
        LET name == provider.model
            hint == Get(body).reasoning_effort
        IN  /\ Get(body).model = name
            /\ hint # None <=>
                  \/ BeginsWith(name, <<"o", "1">>)
                  \/ BeginsWith(name, <<"o", "3">>)
                  \/ BeginsWith(name, <<"o", "4">>)
                  \/ /\ BeginsWith(name, <<"g", "p", "t", "-", "5">>)
                     /\ ~BeginsWith(name, <<"g", "p", "t", "-", "5", "-", "c", "h", "a", "t">>)
            /\ hint # None =>
                  hint = IF provider.configured = None
                         THEN "low" ELSE provider.configured

\* A request for gpt-5-mini without a configured effort carries the effort
\* low.
ReasoningEffortHintWitness ==
    /\ body # Absent
    /\ provider.model = <<"g", "p", "t", "-", "5", "-", "m", "i", "n", "i">>
    /\ provider.configured = None
    /\ Get(body).reasoning_effort = "low"

---------------------------------------------------------------------------
(* extractText of the search example (web_tools.ts) *)

\* Mutant of TextBlockKept: a text block with an empty text is kept.
TextBlockKeptEmpty(b) == b.type = "text" /\ b.text # None

\* The filter of extractText: b.type === "text" && b.text.  A text that is
\* undefined (None) or empty is falsy.
TextBlockKept(b) == b.type = "text" /\ b.text # None /\ b.text # ""

\* extractText(response): "" || "No content returned." is the fallback
extractText(response) ==
    LET kept == SelectSeq(response.content, TextBlockKept)
        joined == Join([i \in DOMAIN kept |-> kept[i].text], "\n")
    IN  IF joined = "" THEN "No content returned." ELSE joined

\* The content blocks of the responses: text blocks, a text block with an
\* empty text, one without text, and a block of another type with a text
ResponseBlocks ==
    {[type |-> "text", text |-> "Hello"],
     [type |-> "text", text |-> "World"],
     [type |-> "text", text |-> ""],
     [type |-> "text", text |-> None],
     [type |-> "tool_use", text |-> "x"]}

\* Responses of up to MaxContent content blocks
Responses == {[content |-> c] : c \in SeqsUpTo(ResponseBlocks, MaxContent)}

\* A call of extractText
ExtractText(response) ==
    /\ extraction = Absent
    /\ extraction' = Some([response |-> response,
                           text |-> extractText(response)])
    /\ UNCHANGED <<streamVars, calls, params, body, provider, costing>>

ExtractNext == \E r \in Responses : ExtractText(r)

SpecExtract == Init /\ [][ExtractNext]_vars

\* C28: extractText returns the texts of the content blocks of type text
\* whose text is not empty, in order, joined by newline, and the text
\* "No content returned." when there is no such block.
ExtractedText ==
    extraction # Absent =>
        LET content == Get(extraction).response.content
            at == {i \in DOMAIN content :
                      /\ content[i].type = "text"
                      /\ content[i].text \notin {None, ""}}
            texts == SelectSeq(content,
                        LAMBDA b : b.type = "text" /\ b.text \notin {None, ""})
        IN  /\ Len(texts) = Cardinality(at)
            /\ Get(extraction).text =
                  IF at = {} THEN "No content returned."
                  ELSE Join([i \in DOMAIN texts |-> texts[i].text], "\n")

\* The response of the tests, with a block of another type between the
\* two text blocks: the text is "Hello\nWorld".
ExtractedTextWitness ==
    /\ extraction # Absent
    /\ Len(Get(extraction).response.content) = 3
    /\ Get(extraction).response.content[1] = [type |-> "text", text |-> "Hello"]
    /\ Get(extraction).response.content[2].type # "text"
    /\ Get(extraction).response.content[3] = [type |-> "text", text |-> "World"]
    /\ Get(extraction).text = "Hello\nWorld"

---------------------------------------------------------------------------
(* Properties of the identity state of a stream *)

\* C29: the auto-index counter never decreases over the reactions of a
\* stream, and after a start event it exceeds every position that has
\* emitted a start event.
AutoIndexMonotonic ==
    [][/\ nextAutoIndex' >= nextAutoIndex
       /\ emittedToolCalls' # emittedToolCalls =>
             \A p \in emittedToolCalls' : nextAutoIndex' > p]_vars

\* Chunks of two fragments that both carry an id: the first is named, the
\* second has the same name or none
PairChunkLists ==
    {<<[index |-> i, id |-> "call_a", name |-> "f"],
       [index |-> j, id |-> "call_b", name |-> n]>> :
        i \in IndexOpt, j \in IndexOpt, n \in {None, "f"}}

\* The first callbacks of the stream are argument deltas of tool calls f,
\* its last two are chunks.
ChunkNext ==
    \/ /\ nSignals < MaxSignals - 2
       /\ \E index \in IndexOpt, d \in ArgumentDeltas, newCall \in BOOLEAN :
             OnArgumentsDelta("f", index, d, newCall)
    \/ /\ nSignals >= MaxSignals - 2
       /\ \E toolCalls \in ChunkToolCallLists : OnChunk(toolCalls)
    \/ /\ nSignals >= MaxSignals - 2
       /\ \E toolCalls \in PairChunkLists : OnChunk(Some(toolCalls))

\* The reactions of a subscribed stream to argument deltas followed by
\* chunks, chunks of two fragments among them
SpecChunk == StreamInit /\ [][ChunkNext]_vars

\* The position of the j-th fragment of a chunk: the index it reports, else
\* its place in the array, counted from 0
PositionOf(toolCalls, j) ==
    IF toolCalls[j].index # Absent THEN toolCalls[j].index[1] ELSE j - 1

\* The map after the chunk: under every key a fragment with an id writes,
\* the id of the last such fragment; under the other keys, what was there
Recorded(map, toolCalls, keys, writers(_)) ==
    LET written == {k \in keys : writers(k) # {}}
    IN  [k \in DOMAIN map \cup written |->
            IF writers(k) # {}
            THEN toolCalls[CHOOSE j \in writers(k) :
                              \A h \in writers(k) : h <= j].id
            ELSE map[k]]

\* What a chunk with the tool-call fragments toolCalls (<<>> for none) is to
\* leave: ids recorded by position and by name, nothing else changed
ChunkEffect(toolCalls) ==
    LET withId == {j \in DOMAIN toolCalls : toolCalls[j].id # None}
        byPosition(p) == {j \in withId : PositionOf(toolCalls, j) = p}
        byName(n) == {j \in withId : n # None /\ toolCalls[j].name = n}
    IN  /\ toolCallIds' =
              Recorded(toolCallIds, toolCalls,
                       {PositionOf(toolCalls, j) : j \in withId}, byPosition)
        /\ toolCallIdsByName' =
              Recorded(toolCallIdsByName, toolCalls,
                       {toolCalls[j].name : j \in withId} \ {None}, byName)
        /\ withId = {} =>
              UNCHANGED <<toolCallIds, toolCallIdsByName>>
        /\ UNCHANGED <<events, closed, emittedToolCalls, nextAutoIndex>>

\* C30: a chunk emits no event and leaves the emitted set and the
\* auto-index as they were; for each fragment with an id it records the id
\* under the fragment's position (the reported index, else the array
\* position) and, when the fragment is named, under the name; a fragment
\* without id, and a chunk without tool calls, change nothing.
ChunkFrame ==
    [][/\ OnChunk(Absent) => ChunkEffect(<<>>)
       /\ \A toolCalls \in PairChunkLists
                           \cup {Get(l) : l \in ChunkToolCallLists \ {Absent}} :
             OnChunk(Some(toolCalls)) => ChunkEffect(toolCalls)]_vars

\* After a start event for position 0, a chunk of two fragments was handled:
\* the first, without index, recorded its id under position 0 and its
\* name; the second recorded its id under the index 1 it reports.
ChunkFrameWitness ==
    /\ Len(events) = 2
    /\ emittedToolCalls = {0}
    /\ nSignals = 2
    /\ DOMAIN toolCallIds = {0, 1}
    /\ toolCallIds[0] # toolCallIds[1]
    /\ DOMAIN toolCallIdsByName = {"f"}
    /\ toolCallIdsByName["f"] = toolCallIds[0]

\* C31: two argument fragments of one stream that resolve to different
\* positions never carry the same toolUseId.
PositionsHaveOwnIds ==
    \A i \in ToolUseInputs, j \in ToolUseInputs :
       events[i].pos # events[j].pos =>
          events[i].toolUseId # events[j].toolUseId

\* C32: whenever events is subscribed, no data callback of the provider
\* (content delta, chunk, argument fragment) went by without a handler: the
\* subscriber gets an event for each delta and fragment of the call, and
\* every id a chunk carried is recorded.  (While the stream is streaming
\* and has neither failed nor aborted, missed counts data callbacks only.)
NoEventLost ==
    subscribed /\ phase = "streaming" /\ ~failed /\ ~aborted => missed = 0

\* C33: the stop_reason of a produced final message is tool_use exactly
\* when its content holds a tool_use block, and end_turn exactly when it
\* holds none.
StopReasonByContent ==
    \A m \in Produced :
        /\ m.stop_reason = "tool_use" <=> ToolUseBlocksOf(m.content) # <<>>
        /\ m.stop_reason = "end_turn" <=> ToolUseBlocksOf(m.content) = <<>>

---------------------------------------------------------------------------
(* A conversation formatted into the request *)

\* The messages of the conversations: assistant messages with tool calls t1
\* and t2 or with text only, user messages of up to MaxUserBlocks blocks
\* among a text and the results of t1 (a text and an image) and of t2
ConversationMessages ==
    {[role |-> "assistant", content |-> c] :
        c \in {<<Text("a")>>,
               <<Text("a"), ToolUse("t1", "f", [k \in {"x"} |-> 1])>>,
               <<ToolUse("t1", "f", [k \in {"x"} |-> 1]),
                 ToolUse("t2", "g", [k \in {} |-> 0])>>}}
    \cup
    {[role |-> "user", content |-> c] :
        c \in SeqsUpTo({Text("a"),
                        ToolResult("t1", <<Text("42"), PngImage>>),
                        ToolResult("t2", <<Text("q")>>)}, MaxUserBlocks)}

\* Calls with a conversation of up to MaxMessages messages
ConversationParams ==
    {StreamChatParams("sys", messages, Absent) :
        messages \in SeqsUpTo(ConversationMessages, MaxMessages)}

ConversationNext ==
    phase = "idle" /\ \E p \in ConversationParams : StreamChat(p)

SpecConversation == Init /\ [][ConversationNext]_vars

\* The messages of the conversation
Conversation == Get(params).messages

\* The number of messages of the request a message of the conversation
\* expands to: one for an assistant message; for a user message one per
\* tool_result block, and one more when a block yields a content part
ExpansionLen(m) ==
    IF m.role # "user" THEN 1
    ELSE Len(ToolResultsOf(m.content))
         + (IF \E k \in DOMAIN m.content : PartCount(m.content[k]) > 0
            THEN 1 ELSE 0)

\* The number of messages of the request, after the system message, the
\* messages of the conversation before the i-th expand to
WireBefore(i) ==
    Len(Flat([j \in 1..(i - 1) |->
                 [q \in 1..ExpansionLen(Conversation[j]) |-> j]]))

\* The ids of the tool calls of the message of the request at place q
ToolCallIdsAt(q) ==
    IF Wire[q].role = "assistant" /\ Wire[q].tool_calls # Absent
    THEN {Get(Wire[q].tool_calls)[k].id :
             k \in DOMAIN Get(Wire[q].tool_calls)}
    ELSE {}

\* The i-th message is an assistant message with tool calls and the next
\* one a user message whose tool_result blocks answer calls of it
AnsweredAt(i) ==
    /\ i + 1 \in DOMAIN Conversation
    /\ Conversation[i].role = "assistant"
    /\ Conversation[i + 1].role = "user"
    /\ ToolResultsOf(Conversation[i + 1].content) # <<>>
    /\ \A k \in DOMAIN Conversation[i + 1].content :
          Conversation[i + 1].content[k].type = "tool_result" =>
             \E u \in DOMAIN Conversation[i].content :
                /\ Conversation[i].content[u].type = "tool_use"
                /\ Conversation[i].content[u].toolUseId =
                      Conversation[i + 1].content[k].toolUseId

\* C34: the messages of the request are the system message, then the
\* expansions of the messages of the conversation in its order: the one
\* message of an assistant message, the tool messages and then the
\* user-role message of a user message.  So the tool messages of a user
\* message that answers the tool calls of the assistant message before it
\* follow that assistant message at once, and each tool_call_id is the id
\* of a tool call of an earlier assistant message of the request.
WireOrder ==
    body # Absent =>
        /\ Get(body).messages[1] = [role |-> "system",
                                    content |-> Get(params).system]
        /\ Len(Wire) = WireBefore(Len(Conversation) + 1)
        /\ \A i \in DOMAIN Conversation :
              LET m == Conversation[i]
                  at == WireBefore(i)
                  results == ToolResultsOf(m.content)
              IN  /\ \A q \in (at + 1)..(at + ExpansionLen(m)) :
                        Wire[q].role =
                           IF m.role = "user" /\ q <= at + Len(results)
                           THEN "tool" ELSE m.role
                  /\ m.role = "user" =>
                        \A k \in DOMAIN results :
                           Wire[at + k].tool_call_id = results[k].toolUseId
                  /\ m.role = "assistant" =>
                        ToolCallIdsAt(at + 1) =
                           {m.content[u].toolUseId :
                               u \in {v \in DOMAIN m.content :
                                         m.content[v].type = "tool_use"}}
        /\ \A i \in DOMAIN Conversation :
              AnsweredAt(i) =>
                 LET at == WireBefore(i) + 1
                     n == Len(ToolResultsOf(Conversation[i + 1].content))
                 IN  /\ Wire[at].role = "assistant"
                     /\ \A q \in (at + 1)..(at + n) :
                           /\ Wire[q].role = "tool"
                           /\ \E e \in 1..(q - 1) :
                                 Wire[q].tool_call_id \in ToolCallIdsAt(e)

\* An assistant message calls t1 and t2 and the user message after it
\* carries their results, the first with an image: the request holds the
\* system message, the assistant message, the two tool messages and the
\* user-role message, in this order.
WireOrderWitness ==
    /\ body # Absent
    /\ Len(Conversation) = 2
    /\ AnsweredAt(1)
    /\ Len(Get(body).messages) = 5
    /\ Get(body).messages[1].role = "system"
    /\ Wire[1].role = "assistant"
    /\ Wire[2].role = "tool" /\ Wire[2].tool_call_id = "t1"
    /\ Wire[3].role = "tool" /\ Wire[3].tool_call_id = "t2"
    /\ Wire[4].role = "user"

---------------------------------------------------------------------------
(* The number of a placeholder and the rank of its image *)

\* The number of image sub-blocks of a supported type among the first n
\* sub-blocks of sub
SupportedAmong(sub, n) ==
    Cardinality({j \in 1..n : sub[j].type = "image" /\ Supported(sub[j])})

\* The rank of the image at sub-block j of the k-th tool_result block among
\* the image payloads the tool_result blocks append to the main message
PayloadRank(results, k, j) ==
    Len(Flat([h \in 1..(k - 1) |->
                 [q \in 1..SupportedAmong(SubBlocks(results[h]),
                                          Len(SubBlocks(results[h]))) |-> h]]))
    + SupportedAmong(SubBlocks(results[k]), j)

\* C35: in every tool message the number of a placeholder
\* [See image N below] is the rank of its image among the image payloads
\* the tool_result blocks of the message append to the main message.
PlaceholderRank ==
    body # Absent =>
        LET results == ToolResultsOf(SentContent)
        IN  \A k \in 1..Len(results) :
               LET sub == SubBlocks(results[k])
               IN  Wire[k].content =
                      Join([j \in DOMAIN sub |->
                               SubBlockText(sub[j], PayloadRank(results, k, j))],
                           "\n")

---------------------------------------------------------------------------
(* calculateCost of the search example (cost.ts) *)

\* PRICING, in declaration order: model ids are sequences of characters;
\* name is the key as one string; prices are in cents per million tokens,
\* <<>> for a value without the field.
PRICING ==
    <<[key |-> <<"c", "l", "a", "u", "d", "e", "-", "o", "p", "u", "s", "-", "4", "-", "6">>,
       name |-> "claude-opus-4-6", inputPerMTok |-> Some(500)],
      [key |-> <<"c", "l", "a", "u", "d", "e", "-", "o", "p", "u", "s", "-", "4", "-", "5", "-", "2", "0", "2", "5", "1", "1", "0", "1">>,
       name |-> "claude-opus-4-5-20251101", inputPerMTok |-> Some(500)],
      [key |-> <<"c", "l", "a", "u", "d", "e", "-", "o", "p", "u", "s", "-", "4", "-", "1", "-", "2", "0", "2", "5", "0", "8", "0", "5">>,
       name |-> "claude-opus-4-1-20250805", inputPerMTok |-> Some(1500)],
      [key |-> <<"c", "l", "a", "u", "d", "e", "-", "o", "p", "u", "s", "-", "4", "-", "2", "0", "2", "5", "0", "5", "1", "4">>,
       name |-> "claude-opus-4-20250514", inputPerMTok |-> Some(1500)],
      [key |-> <<"c", "l", "a", "u", "d", "e", "-", "s", "o", "n", "n", "e", "t", "-", "4", "-", "6">>,
       name |-> "claude-sonnet-4-6", inputPerMTok |-> Some(300)],
      [key |-> <<"c", "l", "a", "u", "d", "e", "-", "s", "o", "n", "n", "e", "t", "-", "4", "-", "5", "-", "2", "0", "2", "5", "0", "9", "2", "9">>,
       name |-> "claude-sonnet-4-5-20250929", inputPerMTok |-> Some(300)],
      [key |-> <<"c", "l", "a", "u", "d", "e", "-", "s", "o", "n", "n", "e", "t", "-", "4", "-", "2", "0", "2", "5", "0", "5", "1", "4">>,
       name |-> "claude-sonnet-4-20250514", inputPerMTok |-> Some(300)],
      [key |-> <<"c", "l", "a", "u", "d", "e", "-", "h", "a", "i", "k", "u", "-", "4", "-", "5", "-", "2", "0", "2", "5", "1", "0", "0", "1">>,
       name |-> "claude-haiku-4-5-20251001", inputPerMTok |-> Some(100)],
      [key |-> <<"c", "l", "a", "u", "d", "e", "-", "3", "-", "5", "-", "h", "a", "i", "k", "u", "-", "l", "a", "t", "e", "s", "t">>,
       name |-> "claude-3-5-haiku-latest", inputPerMTok |-> Some(80)],
      [key |-> <<"c", "l", "a", "u", "d", "e", "-", "3", "-", "h", "a", "i", "k", "u", "-", "2", "0", "2", "4", "0", "3", "0", "7">>,
       name |-> "claude-3-haiku-20240307", inputPerMTok |-> Some(25)]>>

PricingOf(name) ==
    PRICING[CHOOSE i \in DOMAIN PRICING : PRICING[i].name = name]

\* The members an object literal inherits from Object.prototype, among the
\* model ids of the calls
ObjectPrototypeKeys ==
    {<<"c", "o", "n", "s", "t", "r", "u", "c", "t", "o", "r">>,
     <<"t", "o", "S", "t", "r", "i", "n", "g">>,
     <<"_", "_", "p", "r", "o", "t", "o", "_", "_">>}

\* PRICING[model]: the entry of the key, else a member inherited from
\* Object.prototype (a function or an object, none of them a pricing), else
\* undefined
PricingProperty(model) ==
    IF \E i \in DOMAIN PRICING : PRICING[i].key = model
    THEN Some(PRICING[CHOOSE i \in DOMAIN PRICING : PRICING[i].key = model])
    ELSE IF model \in ObjectPrototypeKeys
    THEN Some([key |-> model, name |-> "Object.prototype",
               inputPerMTok |-> Absent])
    ELSE Absent

\* model.includes(part)
includes(model, part) ==
    \E at \in 0..(Len(model) - Len(part)) :
       SubSeq(model, at + 1, at + Len(part)) = part

\* The for loop over Object.entries(PRICING): the first entry with
\* model.startsWith(key) || key.startsWith(model)
PrefixMatch(model) ==
    LET hits == {i \in DOMAIN PRICING :
                    \/ startsWith(model, PRICING[i].key)
                    \/ startsWith(PRICING[i].key, model)}
    IN  IF hits = {} THEN Absent
        ELSE Some(PRICING[CHOOSE i \in hits : \A j \in hits : i <= j])

\* The chain of family tests of findPricing
FamilyMatch(model) ==
    IF includes(model, <<"o", "p", "u", "s", "-", "4", "-", "6">>)
       \/ includes(model, <<"o", "p", "u", "s", "-", "4", ".", "6">>)
    THEN Some(PricingOf("claude-opus-4-6")) ELSE
    IF includes(model, <<"o", "p", "u", "s", "-", "4", "-", "5">>)
       \/ includes(model, <<"o", "p", "u", "s", "-", "4", ".", "5">>)
    THEN Some(PricingOf("claude-opus-4-5-20251101")) ELSE
    IF includes(model, <<"o", "p", "u", "s", "-", "4", "-", "1">>)
       \/ includes(model, <<"o", "p", "u", "s", "-", "4", ".", "1">>)
    THEN Some(PricingOf("claude-opus-4-1-20250805")) ELSE
    IF includes(model, <<"o", "p", "u", "s", "-", "4">>)
       \/ includes(model, <<"o", "p", "u", "s", "4">>)
    THEN Some(PricingOf("claude-opus-4-20250514")) ELSE
    IF includes(model, <<"s", "o", "n", "n", "e", "t", "-", "4", "-", "6">>)
       \/ includes(model, <<"s", "o", "n", "n", "e", "t", "-", "4", ".", "6">>)
    THEN Some(PricingOf("claude-sonnet-4-6")) ELSE
    IF includes(model, <<"s", "o", "n", "n", "e", "t", "-", "4", "-", "5">>)
       \/ includes(model, <<"s", "o", "n", "n", "e", "t", "-", "4", ".", "5">>)
    THEN Some(PricingOf("claude-sonnet-4-5-20250929")) ELSE
    IF includes(model, <<"s", "o", "n", "n", "e", "t", "-", "4">>)
       \/ includes(model, <<"s", "o", "n", "n", "e", "t", "4">>)
    THEN Some(PricingOf("claude-sonnet-4-20250514")) ELSE
    IF includes(model, <<"h", "a", "i", "k", "u", "-", "4", "-", "5">>)
       \/ includes(model, <<"h", "a", "i", "k", "u", "-", "4", ".", "5">>)
    THEN Some(PricingOf("claude-haiku-4-5-20251001")) ELSE
    IF includes(model, <<"h", "a", "i", "k", "u", "-", "3", "-", "5">>)
       \/ includes(model, <<"h", "a", "i", "k", "u", "-", "3", ".", "5">>)
    THEN Some(PricingOf("claude-3-5-haiku-latest")) ELSE
    IF includes(model, <<"h", "a", "i", "k", "u">>)
    THEN Some(PricingOf("claude-3-haiku-20240307")) ELSE
    Absent

\* findPricing(model): the pricing returned, Absent when it throws
findPricing(model) ==
    IF PricingProperty(model) # Absent THEN PricingProperty(model)
    ELSE IF PrefixMatch(model) # Absent THEN PrefixMatch(model)
    ELSE FamilyMatch(model)

\* calculateCost(model, usage), usage.input_tokens being inputMTok million
\* tokens: the breakdown (its input cost in cents; "NaN" when the price is
\* undefined), or the error findPricing throws
calculateCost(model, inputMTok) ==
    LET pricing == findPricing(model)
    IN  IF pricing = Absent
        THEN [model |-> model, threw |-> "Unknown model", pricing |-> None,
              inputCost |-> None]
        ELSE [model |-> model, threw |-> None, pricing |-> Get(pricing).name,
              inputCost |-> IF Get(pricing).inputPerMTok = Absent THEN "NaN"
                            ELSE ToString(inputMTok
                                          * Get(Get(pricing).inputPerMTok))]

\* The model ids of the calls: the keys of the table, prefixes and
\* extensions of keys, ids that name a family, ids of other models, and
\* names of members of Object.prototype
ModelIds ==
    {<<"c", "l", "a", "u", "d", "e", "-", "o", "p", "u", "s", "-", "4", "-", "6">>,
     <<"c", "l", "a", "u", "d", "e", "-", "o", "p", "u", "s", "-", "4", "-", "5", "-", "2", "0", "2", "5", "1", "1", "0", "1">>,
     <<"c", "l", "a", "u", "d", "e", "-", "o", "p", "u", "s", "-", "4", "-", "1", "-", "2", "0", "2", "5", "0", "8", "0", "5">>,
     <<"c", "l", "a", "u", "d", "e", "-", "o", "p", "u", "s", "-", "4", "-", "2", "0", "2", "5", "0", "5", "1", "4">>,
     <<"c", "l", "a", "u", "d", "e", "-", "s", "o", "n", "n", "e", "t", "-", "4", "-", "6">>,
     <<"c", "l", "a", "u", "d", "e", "-", "s", "o", "n", "n", "e", "t", "-", "4", "-", "5", "-", "2", "0", "2", "5", "0", "9", "2", "9">>,
     <<"c", "l", "a", "u", "d", "e", "-", "s", "o", "n", "n", "e", "t", "-", "4", "-", "2", "0", "2", "5", "0", "5", "1", "4">>,
     <<"c", "l", "a", "u", "d", "e", "-", "h", "a", "i", "k", "u", "-", "4", "-", "5", "-", "2", "0", "2", "5", "1", "0", "0", "1">>,
     <<"c", "l", "a", "u", "d", "e", "-", "3", "-", "5", "-", "h", "a", "i", "k", "u", "-", "l", "a", "t", "e", "s", "t">>,
     <<"c", "l", "a", "u", "d", "e", "-", "3", "-", "h", "a", "i", "k", "u", "-", "2", "0", "2", "4", "0", "3", "0", "7">>,
     <<>>,
     <<"c", "l", "a", "u", "d", "e">>,
     <<"c", "l", "a", "u", "d", "e", "-", "o", "p", "u", "s", "-", "4">>,
     <<"c", "l", "a", "u", "d", "e", "-", "o", "p", "u", "s", "-", "4", "-", "5">>,
     <<"c", "l", "a", "u", "d", "e", "-", "o", "p", "u", "s", "-", "4", "-", "1">>,
     <<"c", "l", "a", "u", "d", "e", "-", "s", "o", "n", "n", "e", "t", "-", "4">>,
     <<"c", "l", "a", "u", "d", "e", "-", "3">>,
     <<"c", "l", "a", "u", "d", "e", "-", "o", "p", "u", "s", "-", "4", "-", "6", "-", "v", "2">>,
     <<"c", "l", "a", "u", "d", "e", "-", "s", "o", "n", "n", "e", "t", "-", "4", "-", "6", "-", "1", "m">>,
     <<"o", "p", "u", "s", "-", "4", "-", "6">>,
     <<"a", "/", "o", "p", "u", "s", "-", "4", ".", "5">>,
     <<"o", "p", "u", "s", "-", "4", "-", "1">>,
     <<"o", "p", "u", "s", "-", "4", "-", "2", "0", "2", "5">>,
     <<"o", "p", "u", "s", "4">>,
     <<"s", "o", "n", "n", "e", "t", "-", "4", ".", "6">>,
     <<"s", "o", "n", "n", "e", "t", "-", "4", "-", "5">>,
     <<"s", "o", "n", "n", "e", "t", "4">>,
     <<"h", "a", "i", "k", "u", "-", "4", ".", "5">>,
     <<"h", "a", "i", "k", "u", "-", "3", "-", "5">>,
     <<"h", "a", "i", "k", "u">>,
     <<"a", "/", "c", "l", "a", "u", "d", "e", "-", "o", "p", "u", "s", "-", "4", "-", "6">>,
     <<"g", "p", "t", "-", "4", "o">>,
     <<"o", "p", "u", "s", "-", "3">>,
     <<"s", "o", "n", "n", "e", "t", "-", "3", "-", "7">>,
     <<"c", "l", "a", "u", "d", "e", "-", "2">>,
     <<"C", "l", "a", "u", "d", "e", "-", "O", "p", "u", "s", "-", "4">>,
     <<"c", "o", "n", "s", "t", "r", "u", "c", "t", "o", "r">>,
     <<"t", "o", "S", "t", "r", "i", "n", "g">>,
     <<"_", "_", "p", "r", "o", "t", "o", "_", "_">>,
     <<"o", "p", "u", "s">>,
     <<"c", "l", "a", "u", "d", "e", "-", "h", "a", "i", "k", "u", "-", "4", "-", "5">>,
     <<"c", "l", "a", "u", "d", "e", "-", "3", "-", "5", "-", "h", "a", "i", "k", "u">>}

\* A call of calculateCost
CalculateCost(model, inputMTok) ==
    /\ Len(costing) < MaxCostCalls
    /\ costing' = Append(costing, calculateCost(model, inputMTok))
    /\ UNCHANGED <<streamVars, calls, params, body, provider, extraction>>

CostNext == \E model \in ModelIds, inputMTok \in 0..MaxMTok : CalculateCost(model, inputMTok)

SpecCost == Init /\ [][CostNext]_vars

\* The model families, the most specific first, with the spellings that
\* name them in a model id
Families ==
    <<[markers |-> {<<"o", "p", "u", "s", "-", "4", "-", "6">>,
                    <<"o", "p", "u", "s", "-", "4", ".", "6">>},
       name |-> "claude-opus-4-6"],
      [markers |-> {<<"o", "p", "u", "s", "-", "4", "-", "5">>,
                    <<"o", "p", "u", "s", "-", "4", ".", "5">>},
       name |-> "claude-opus-4-5-20251101"],
      [markers |-> {<<"o", "p", "u", "s", "-", "4", "-", "1">>,
                    <<"o", "p", "u", "s", "-", "4", ".", "1">>},
       name |-> "claude-opus-4-1-20250805"],
      [markers |-> {<<"o", "p", "u", "s", "-", "4">>,
                    <<"o", "p", "u", "s", "4">>},
       name |-> "claude-opus-4-20250514"],
      [markers |-> {<<"s", "o", "n", "n", "e", "t", "-", "4", "-", "6">>,
                    <<"s", "o", "n", "n", "e", "t", "-", "4", ".", "6">>},
       name |-> "claude-sonnet-4-6"],
      [markers |-> {<<"s", "o", "n", "n", "e", "t", "-", "4", "-", "5">>,
                    <<"s", "o", "n", "n", "e", "t", "-", "4", ".", "5">>},
       name |-> "claude-sonnet-4-5-20250929"],
      [markers |-> {<<"s", "o", "n", "n", "e", "t", "-", "4">>,
                    <<"s", "o", "n", "n", "e", "t", "4">>},
       name |-> "claude-sonnet-4-20250514"],
      [markers |-> {<<"h", "a", "i", "k", "u", "-", "4", "-", "5">>,
                    <<"h", "a", "i", "k", "u", "-", "4", ".", "5">>},
       name |-> "claude-haiku-4-5-20251001"],
      [markers |-> {<<"h", "a", "i", "k", "u", "-", "3", "-", "5">>,
                    <<"h", "a", "i", "k", "u", "-", "3", ".", "5">>},
       name |-> "claude-3-5-haiku-latest"],
      [markers |-> {<<"h", "a", "i", "k", "u">>},
       name |-> "claude-3-haiku-20240307"]>>

\* The key is the beginning of the id
KeyPrefix(key, id) ==
    \A i \in DOMAIN key : i \in DOMAIN id /\ id[i] = key[i]

\* The id holds the marker somewhere
Names(id, marker) ==
    \E at \in 0..(Len(id) - Len(marker)) :
       \A i \in DOMAIN marker : id[at + i] = marker[i]

\* The pricing the lookup is to resolve to: the name of the table entry, or
\* None when no rule matches
ExpectedPricing(id) ==
    LET exact == {i \in DOMAIN PRICING : PRICING[i].key = id}
        prefix == {i \in DOMAIN PRICING :
                      KeyPrefix(PRICING[i].key, id) \/ KeyPrefix(id, PRICING[i].key)}
        family == {f \in DOMAIN Families :
                      \E m \in Families[f].markers : Names(id, m)}
    IN  IF exact # {} THEN PRICING[CHOOSE i \in exact : TRUE].name
        ELSE IF prefix # {}
        THEN PRICING[CHOOSE i \in prefix : \A j \in prefix : i <= j].name
        ELSE IF family # {}
        THEN Families[CHOOSE f \in family : \A g \in family : f <= g].name
        ELSE None

\* C36: the pricing of a model id is the table entry with that key; else
\* the first entry, in declaration order, whose key is a prefix of the id or
\* of which the id is a prefix; else the entry of the most specific family
\* the id names; calculateCost throws Unknown model exactly when none of
\* the three matches.
PricingLookupOrder ==
    \A c \in DOMAIN costing :
       /\ costing[c].pricing = ExpectedPricing(costing[c].model)
       /\ costing[c].threw = "Unknown model" <=>
             ExpectedPricing(costing[c].model) = None
       /\ costing[c].threw \in {None, "Unknown model"}

============================================================================
